---- MODULE Spec2Model ----
(***************************************************************************)
(* Documentation structure extractor: the crawler (modules/crawler.py),    *)
(* the URL utilities (modules/utils.py), the batch parser's merge and      *)
(* deduplication (modules/parser.py) and the formatter                     *)
(* (modules/formatter.py).                                                 *)
(***************************************************************************)
EXTENDS Integers, Sequences, FiniteSets, TLC

(***************************************************************************)
(* Bounds of the model.                                                    *)
(***************************************************************************)
MaxDepthBound == 2
MaxPagesBound == 3
MaxWorkersBound == 3

(***************************************************************************)
(* URL utilities.  A URL string is represented by the 6-tuple urlparse     *)
(* splits it into.                                                         *)
(***************************************************************************)
Url(scheme, netloc, path, fragment) ==
    [scheme |-> scheme, netloc |-> netloc, path |-> path,
     params |-> "", query |-> "", fragment |-> fragment]

is_valid_url_any(url) == url.scheme # "" \/ url.netloc # ""

is_valid_url(url) == url.scheme # "" /\ url.netloc # ""

normalize_url(url) == [url EXCEPT !.fragment = ""]

is_same_domain_any(url1, url2) == TRUE

is_same_domain(url1, url2) == url1.netloc = url2.netloc

(***************************************************************************)
(* The site that is crawled: the pages of a.com, a link that leaves the    *)
(* domain and a dead link.  An anchor is the <a href> of a page: skip      *)
(* says that the raw href is empty or starts with javascript:, #, mailto:  *)
(* or tel:, target is urljoin(url, href), text_kw says that the link text  *)
(* holds a documentation keyword.                                          *)
(***************************************************************************)
Root == Url("https", "a.com", "/", "")
Doc  == Url("https", "a.com", "/doc", "")
P2   == Url("https", "a.com", "/p2", "")
P3   == Url("https", "a.com", "/p3", "")
Gone == Url("https", "a.com", "/gone", "")
Off  == Url("https", "b.com", "/x", "")

SiteUrls == {Root, Doc, P2, P3, Gone}

StartUrls == {Url("https", "a.com", "/", "top"),
              Url("", "", "not a url", ""),
              Url("https", "", "/doc", "")}

Anchor(skip, target, text_kw) ==
    [skip |-> skip, target |-> target, text_kw |-> text_kw]

None == "<None>"

HtmlOf(url) ==
    CASE url = Root -> "<html root>"
      [] url = Doc  -> "<html doc>"
      [] url = P2   -> "<html p2>"
      [] url = P3   -> "<html p3>"
      [] OTHER      -> None

Anchors(html_content) ==
    CASE html_content = "<html root>" ->
             << Anchor(TRUE, Url("", "", "", "top"), FALSE),
                Anchor(FALSE, P2, FALSE),
                Anchor(FALSE, Off, TRUE),
                Anchor(FALSE, Url("https", "a.com", "/doc", "intro"), FALSE),
                Anchor(FALSE, Doc, FALSE),
                Anchor(FALSE, Gone, FALSE) >>
      [] html_content = "<html doc>" ->
             << Anchor(FALSE, Root, FALSE),
                Anchor(FALSE, P3, TRUE),
                Anchor(FALSE, P2, FALSE) >>
      [] html_content = "<html p2>" ->
             << Anchor(FALSE, P3, FALSE), Anchor(FALSE, Doc, FALSE) >>
      [] OTHER -> << >>

\* the outcomes of one fetch_url call: None (request exception, timeout,
\* non-2xx status), "" (empty body) or the body of the page
FetchOutcomes(url) == {None, "", HtmlOf(url)}

Truthy(html_content) == html_content # None /\ html_content # ""

(***************************************************************************)
(* Crawler.extract_links                                                   *)
(***************************************************************************)
AnchorLimit == 100
LinkLimit == 50

Take(s, n) == SubSeq(s, 1, IF Len(s) < n THEN Len(s) ELSE n)

UrlHasKeyword(url) == url.path \in {"/doc"}

Targets(as) == [i \in DOMAIN as |-> normalize_url(as[i].target)]

extract_links(url, html_content) ==
    LET found == Take(SelectSeq(Anchors(html_content),
                                LAMBDA a : ~a.skip), AnchorLimit)
        kept == SelectSeq(found,
                    LAMBDA a : /\ is_same_domain(url, normalize_url(a.target))
                               /\ is_valid_url(normalize_url(a.target)))
        priority_links == SelectSeq(kept,
                    LAMBDA a : UrlHasKeyword(normalize_url(a.target)) \/ a.text_kw)
        normal_links == SelectSeq(kept,
                    LAMBDA a : ~(UrlHasKeyword(normalize_url(a.target)) \/ a.text_kw))
    IN  Take(Targets(priority_links) \o Targets(normal_links), LinkLimit)

(***************************************************************************)
(* Crawler state.  futures holds the process_url calls of the current      *)
(* batch; fetch_count, failed and succeeded record the fetch_url calls.    *)
(***************************************************************************)
VARIABLES start_url, max_depth, max_pages, max_workers,
          visited_urls, pages, links_to_crawl,
          mainpc, futures, cur, result,
          fetch_count, failed, succeeded

\* Parser.parse_html_batch: the pages handed over, the futures not yet
\* collected and the lists the method builds
VARIABLES quick_mode, batch_pages, batch_pc, pending, all_modules,
          unique_modules, pages_processed, modules_found

\* Formatter.format_modules: its argument and its return value
VARIABLES modules, formatted_modules, format_pc

\* utils.normalize_url and utils.is_valid_url: the argument, the result of
\* normalize_url, of a second normalize_url and of is_valid_url
VARIABLES url_in, url_norm, url_norm2, url_valid, url_pc

\* Parser.extract_modules_from_headings: the content node, the position in
\* the sorted headings, the dicts the method has created (heap; modules and
\* stack frames refer to them by index), and its locals
VARIABLES content, heading_i, heap, heading_modules, current_module,
          heading_stack, heading_pc

\* Parser.extract_modules_from_lists: the list element, the position in its
\* items, the modules built and, for each, the item it was built from
VARIABLES list_element, item_i, list_modules, list_from, list_pc

\* Parser.find_submodules_aggressively: the content node, the flag of the
\* parser, the modules handed over (updated in place), the modules as they
\* were on the first entry, the module and the pass the loop is at, and the
\* number of calls made
VARIABLES miner_content, aggressive_submodule_detection, miner_modules,
          miner_in, miner_m, miner_pass, miner_runs, miner_pc

\* Crawler.fetch_url: the site of the URL, the response of session.get, the
\* part of its body iter_content has not yielded yet, the local content,
\* the value returned and the position in the method
VARIABLES fetch_site, response, unread, fetch_content, fetch_returned,
          fetch_pc

\* Parser.parse_single_html over the pages of a batch, one page after the
\* other: what each pass does on each page, the flag of the parser, the
\* page and the statement the method is at, its locals and the list
\* returned for each page parsed so far
VARIABLES parse_pages, parse_aggressive, parse_i, parse_pc,
          modules_from_headings, modules_from_lists, parse_modules,
          parse_results

url_vars == << url_in, url_norm, url_norm2, url_valid, url_pc >>

fetch_vars == << fetch_site, response, unread, fetch_content,
                 fetch_returned, fetch_pc >>

parse_vars == << parse_pages, parse_aggressive, parse_i, parse_pc,
                 modules_from_headings, modules_from_lists, parse_modules,
                 parse_results >>

miner_vars == << miner_content, aggressive_submodule_detection,
                 miner_modules, miner_in, miner_m, miner_pass, miner_runs,
                 miner_pc >>

list_vars == << list_element, item_i, list_modules, list_from, list_pc >>

heading_vars == << content, heading_i, heap, heading_modules, current_module,
                   heading_stack, heading_pc >>

\* the state of the extraction passes and of the URL utilities
ext_vars == << url_vars, heading_vars, list_vars, miner_vars, fetch_vars,
               parse_vars >>

\* what a step of one of them leaves alone
url_others == << heading_vars, list_vars, miner_vars, fetch_vars,
                 parse_vars >>
heading_others == << url_vars, list_vars, miner_vars, fetch_vars,
                     parse_vars >>
list_others == << url_vars, heading_vars, miner_vars, fetch_vars,
                  parse_vars >>
miner_others == << url_vars, heading_vars, list_vars, fetch_vars,
                   parse_vars >>
fetch_others == << url_vars, heading_vars, list_vars, miner_vars,
                   parse_vars >>
parse_others == << url_vars, heading_vars, list_vars, miner_vars,
                   fetch_vars >>

crawl_vars == << start_url, max_depth, max_pages, max_workers,
                 visited_urls, pages, links_to_crawl,
                 mainpc, futures, cur, result,
                 fetch_count, failed, succeeded >>

batch_vars == << quick_mode, batch_pages, batch_pc, pending, all_modules,
                 unique_modules, pages_processed, modules_found >>

format_vars == << modules, formatted_modules, format_pc >>

NoCur == [url |-> Root, links |-> << >>, depth |-> 0, i |-> 1]

EmptyPages == [u \in {} |-> None]

CrawlInit ==
    /\ start_url \in StartUrls
    /\ max_depth \in 0..MaxDepthBound
    /\ max_pages \in 1..MaxPagesBound
    /\ max_workers \in 1..MaxWorkersBound
    /\ visited_urls = {}
    /\ pages = EmptyPages
    /\ links_to_crawl = << >>
    /\ mainpc = "start"
    /\ futures = << >>
    /\ cur = NoCur
    /\ result = EmptyPages
    /\ fetch_count = [u \in SiteUrls |-> 0]
    /\ failed = {}
    /\ succeeded = {}

UnderPageCap_le(p) == Cardinality(DOMAIN p) <= max_pages

\* len(self.pages) < self.max_pages
UnderPageCap(p) == Cardinality(DOMAIN p) < max_pages

RestOfFrontier_keep(q) == q

\* self.links_to_crawl[self.max_workers:]
RestOfFrontier(q) == SubSeq(q, max_workers + 1, Len(q))

Future(url_info) ==
    [url |-> url_info[1], depth |-> url_info[2], pc |-> "check",
     html |-> None, links |-> << >>, merged |-> FALSE]

\* crawl_parallel, up to the loop
Start ==
    /\ mainpc = "start"
    /\ IF ~is_valid_url(start_url)
       THEN /\ mainpc' = "returned"
            /\ result' = pages
            /\ UNCHANGED links_to_crawl
       ELSE /\ links_to_crawl' = << << normalize_url(start_url), 0 >> >>
            /\ mainpc' = "loop"
            /\ UNCHANGED result
    /\ UNCHANGED << batch_vars, format_vars, ext_vars, start_url, max_depth, max_pages, max_workers, visited_urls,
                    pages, futures, cur, fetch_count, failed, succeeded >>

\* the whole frontier dispatched as one batch
Dispatch_all ==
    /\ mainpc = "loop"
    /\ links_to_crawl # << >> /\ UnderPageCap(pages)
    /\ futures' = [i \in DOMAIN links_to_crawl |-> Future(links_to_crawl[i])]
    /\ links_to_crawl' = << >>
    /\ mainpc' = "collect"
    /\ UNCHANGED << batch_vars, format_vars, ext_vars, start_url, max_depth, max_pages, max_workers, visited_urls,
                    pages, cur, result, fetch_count, failed, succeeded >>

\* the loop test and the dispatch of one batch
Dispatch ==
    /\ mainpc = "loop"
    /\ links_to_crawl # << >> /\ UnderPageCap(pages)
    /\ futures' = [i \in DOMAIN Take(links_to_crawl, max_workers) |->
                      Future(links_to_crawl[i])]
    /\ links_to_crawl' = RestOfFrontier(links_to_crawl)
    /\ mainpc' = "collect"
    /\ UNCHANGED << batch_vars, format_vars, ext_vars, start_url, max_depth, max_pages, max_workers, visited_urls,
                    pages, cur, result, fetch_count, failed, succeeded >>

\* the loop test fails: the pool is shut down and self.pages returned
Return ==
    /\ mainpc = "loop"
    /\ ~(links_to_crawl # << >> /\ UnderPageCap(pages))
    /\ mainpc' = "returned"
    /\ result' = pages
    /\ futures' = << >>
    /\ UNCHANGED << batch_vars, format_vars, ext_vars, start_url, max_depth, max_pages, max_workers, visited_urls,
                    pages, links_to_crawl, cur, fetch_count, failed, succeeded >>

(***************************************************************************)
(* Crawler.process_url, run by a pool thread.  The membership test and     *)
(* the add are separate steps: no lock guards visited_urls.                *)
(***************************************************************************)
WorkerCheck(i) ==
    /\ futures[i].pc = "check"
    /\ IF futures[i].depth > max_depth \/ futures[i].url \in visited_urls
       THEN futures' = [futures EXCEPT ![i].pc = "done"]
       ELSE futures' = [futures EXCEPT ![i].pc = "claim"]
    /\ UNCHANGED << batch_vars, format_vars, ext_vars, start_url, max_depth, max_pages, max_workers, visited_urls,
                    pages, links_to_crawl, mainpc, cur, result,
                    fetch_count, failed, succeeded >>

WorkerClaim(i) ==
    /\ futures[i].pc = "claim"
    /\ visited_urls' = visited_urls \cup {futures[i].url}
    /\ futures' = [futures EXCEPT ![i].pc = "fetch"]
    /\ UNCHANGED << batch_vars, format_vars, ext_vars, start_url, max_depth, max_pages, max_workers,
                    pages, links_to_crawl, mainpc, cur, result,
                    fetch_count, failed, succeeded >>

WorkerFetch(i) ==
    /\ futures[i].pc = "fetch"
    /\ \E html_content \in FetchOutcomes(futures[i].url) :
          /\ fetch_count' = [fetch_count EXCEPT ![futures[i].url] = @ + 1]
          /\ IF ~Truthy(html_content)
             THEN /\ futures' = [futures EXCEPT ![i].pc = "done"]
                  /\ failed' = failed \cup {futures[i].url}
                  /\ UNCHANGED succeeded
             ELSE /\ futures' = [futures EXCEPT
                                   ![i].pc = "done",
                                   ![i].html = html_content,
                                   ![i].links = extract_links(futures[i].url,
                                                              html_content)]
                  /\ succeeded' = succeeded \cup {futures[i].url}
                  /\ UNCHANGED failed
    /\ UNCHANGED << batch_vars, format_vars, ext_vars, start_url, max_depth, max_pages, max_workers, visited_urls,
                    pages, links_to_crawl, mainpc, cur, result >>

(***************************************************************************)
(* The as_completed loop of crawl_parallel, run by the calling thread      *)
(* while the other workers of the batch are still running.                 *)
(***************************************************************************)
CanDescend_same(depth) == depth <= max_depth

\* new_depth = depth + 1; new_depth <= self.max_depth
CanDescend(depth) == depth + 1 <= max_depth

StorePage(p, url, html_content) ==
    [u \in DOMAIN p \cup {url} |-> IF u = url THEN html_content ELSE p[u]]

\* future.result() of a completed future; the page is stored
Collect(i) ==
    /\ mainpc = "collect"
    /\ futures[i].pc = "done" /\ ~futures[i].merged
    /\ futures' = [futures EXCEPT ![i].merged = TRUE]
    /\ IF Truthy(futures[i].html)
       THEN /\ pages' = StorePage(pages, futures[i].url, futures[i].html)
            /\ IF CanDescend(futures[i].depth)
               THEN /\ cur' = [url |-> futures[i].url, links |-> futures[i].links,
                               depth |-> futures[i].depth, i |-> 1]
                    /\ mainpc' = "links"
               ELSE UNCHANGED << cur, mainpc >>
       ELSE UNCHANGED << pages, cur, mainpc >>
    /\ UNCHANGED << batch_vars, format_vars, ext_vars, start_url, max_depth, max_pages, max_workers, visited_urls,
                    links_to_crawl, result, fetch_count, failed, succeeded >>

\* one iteration of "for link in links"
MergeLink ==
    /\ mainpc = "links"
    /\ cur.i <= Len(cur.links)
    /\ IF cur.links[cur.i] \notin visited_urls /\ UnderPageCap(pages)
       THEN links_to_crawl' =
                Append(links_to_crawl, << cur.links[cur.i], cur.depth + 1 >>)
       ELSE UNCHANGED links_to_crawl
    /\ cur' = [cur EXCEPT !.i = @ + 1]
    /\ UNCHANGED << batch_vars, format_vars, ext_vars, start_url, max_depth, max_pages, max_workers, visited_urls,
                    pages, mainpc, futures, result,
                    fetch_count, failed, succeeded >>

\* "for link in links" is exhausted
MergeDone ==
    /\ mainpc = "links"
    /\ cur.i > Len(cur.links)
    /\ cur' = NoCur
    /\ mainpc' = "collect"
    /\ UNCHANGED << batch_vars, format_vars, ext_vars, start_url, max_depth, max_pages, max_workers, visited_urls,
                    pages, links_to_crawl, futures, result,
                    fetch_count, failed, succeeded >>

\* as_completed is exhausted: back to the loop test
BatchDone ==
    /\ mainpc = "collect"
    /\ \A i \in DOMAIN futures : futures[i].merged
    /\ mainpc' = "loop"
    /\ UNCHANGED << batch_vars, format_vars, ext_vars, start_url, max_depth, max_pages, max_workers, visited_urls,
                    pages, links_to_crawl, futures, cur, result,
                    fetch_count, failed, succeeded >>

vars == << crawl_vars, batch_vars, format_vars, ext_vars >>

\* no parse_html_batch call is under way
BatchIdle ==
    /\ quick_mode = FALSE
    /\ batch_pages = << >>
    /\ batch_pc = "idle"
    /\ pending = {}
    /\ all_modules = << >>
    /\ unique_modules = << >>
    /\ pages_processed = 0
    /\ modules_found = 0

\* no format_modules call is under way
FormatIdle ==
    /\ modules = << >>
    /\ formatted_modules = << >>
    /\ format_pc = "idle"

\* no crawl is under way
CrawlIdle ==
    /\ start_url = Root
    /\ max_depth = 0
    /\ max_pages = 1
    /\ max_workers = 1
    /\ visited_urls = {}
    /\ pages = EmptyPages
    /\ links_to_crawl = << >>
    /\ mainpc = "idle"
    /\ futures = << >>
    /\ cur = NoCur
    /\ result = EmptyPages
    /\ fetch_count = [u \in SiteUrls |-> 0]
    /\ failed = {}
    /\ succeeded = {}

\* no call of a URL utility is under way
UrlIdle ==
    /\ url_in = << >>
    /\ url_norm = << >>
    /\ url_norm2 = << >>
    /\ url_valid = ""
    /\ url_pc = "idle"

\* no extract_modules_from_headings call is under way
HeadingIdle ==
    /\ content = << >>
    /\ heading_i = 0
    /\ heap = << >>
    /\ heading_modules = << >>
    /\ current_module = 0
    /\ heading_stack = << >>
    /\ heading_pc = "idle"

\* no extract_modules_from_lists call is under way
ListIdle ==
    /\ list_element = << >>
    /\ item_i = 0
    /\ list_modules = << >>
    /\ list_from = << >>
    /\ list_pc = "idle"

\* no find_submodules_aggressively call is under way
MinerIdle ==
    /\ miner_content = << >>
    /\ aggressive_submodule_detection = FALSE
    /\ miner_modules = << >>
    /\ miner_in = << >>
    /\ miner_m = 0
    /\ miner_pass = 0
    /\ miner_runs = 0
    /\ miner_pc = "idle"

\* no fetch_url call is under way
FetchIdle ==
    /\ fetch_site = ""
    /\ response = << >>
    /\ unread = << >>
    /\ fetch_content = << >>
    /\ fetch_returned = None
    /\ fetch_pc = "idle"

\* no parse_single_html call is under way
ParseIdle ==
    /\ parse_pages = << >>
    /\ parse_aggressive = FALSE
    /\ parse_i = 0
    /\ parse_pc = "idle"
    /\ modules_from_headings = << >>
    /\ modules_from_lists = << >>
    /\ parse_modules = << >>
    /\ parse_results = << >>

ExtIdle ==
    /\ UrlIdle /\ HeadingIdle /\ ListIdle /\ MinerIdle
    /\ FetchIdle /\ ParseIdle

Init == CrawlInit /\ BatchIdle /\ FormatIdle /\ ExtIdle

Next ==
    \/ Start
    \/ Dispatch
    \/ Return
    \/ \E i \in DOMAIN futures : WorkerCheck(i)
    \/ \E i \in DOMAIN futures : WorkerClaim(i)
    \/ \E i \in DOMAIN futures : WorkerFetch(i)
    \/ \E i \in DOMAIN futures : Collect(i)
    \/ MergeLink
    \/ MergeDone
    \/ BatchDone

Spec == Init /\ [][Next]_vars

\* every enabled step of the main thread or of a pool thread is eventually
\* taken: threads are scheduled, fetches return or fail within the timeout
FairSpec == Spec /\ WF_vars(Next)

(***************************************************************************)
(* Properties of the crawler.                                              *)
(***************************************************************************)
PageCount == Cardinality(DOMAIN pages)

\* C1: during one crawl_parallel run each URL is fetched at most once,
\* under every interleaving of the pool threads.
NoDuplicateFetch == \A u \in SiteUrls : fetch_count[u] <= 1

\* C2: with max_pages = 1 and a valid start URL whose fetch succeeds, the
\* returned mapping has exactly one entry, the start URL.
MaxPagesOneSingleEntry ==
    ( /\ mainpc = "returned"
      /\ max_pages = 1
      /\ start_url.scheme # "" /\ start_url.netloc # ""
      /\ [start_url EXCEPT !.fragment = ""] \in succeeded )
    => DOMAIN result = {[start_url EXCEPT !.fragment = ""]}

MaxPagesOneReturned ==
    /\ mainpc = "returned"
    /\ max_pages = 1
    /\ max_depth >= 1
    /\ Root \in succeeded
    /\ Len(extract_links(Root, HtmlOf(Root))) >= 2
    /\ DOMAIN result = {Root}

\* C3: a link found on a page of depth d is appended to the frontier, at
\* depth d+1, only if d+1 <= max_depth, the link is not in visited_urls and
\* fewer than max_pages pages are stored at that moment; no page is fetched
\* or stored at a depth greater than max_depth.
FrontierAppendGuarded ==
    /\ [][ (mainpc # "start" /\ Len(links_to_crawl') > Len(links_to_crawl))
           => LET e == links_to_crawl'[Len(links_to_crawl')]
              IN  /\ mainpc = "links"
                  /\ links_to_crawl' = Append(links_to_crawl, e)
                  /\ e[1] = cur.links[cur.i]
                  /\ e[2] = cur.depth + 1
                  /\ e[2] <= max_depth
                  /\ e[1] \notin visited_urls
                  /\ PageCount < max_pages ]_vars
    /\ [][ \A i \in DOMAIN futures :
              (i \in DOMAIN futures' /\ ~futures[i].merged /\ futures'[i].merged
                 /\ pages' # pages)
              => futures[i].depth <= max_depth ]_vars
    /\ [](\A i \in DOMAIN futures :
              futures[i].pc = "fetch" => futures[i].depth <= max_depth)

LinkAppendedAtDepth ==
    /\ Len(links_to_crawl) >= 1
    /\ links_to_crawl[Len(links_to_crawl)][2] = max_depth
    /\ max_depth >= 1
    /\ \E u \in succeeded : u # Root

\* C4: crawl_parallel eventually returns, and when it returns the frontier
\* is empty or the number of stored pages has reached max_pages.
CrawlTerminates ==
    <>(mainpc = "returned" /\ (links_to_crawl = << >> \/ PageCount >= max_pages))

ReturnedAtCapWithFrontier ==
    /\ mainpc = "returned"
    /\ links_to_crawl # << >>
    /\ PageCount >= max_pages

\* C5: a URL whose fetch failed is never added to the result mapping and is
\* not fetched again.
FailedFetchIsFinal ==
    \A u \in failed : u \notin DOMAIN pages /\ fetch_count[u] = 1

\* C6: with an invalid start URL no crawl is attempted: no worker is
\* dispatched, no URL claimed, the frontier, the visited set and the page
\* store stay as constructed and the caller receives an empty result.
InvalidStartNoCrawl ==
    (start_url.scheme = "" \/ start_url.netloc = "")
    => /\ mainpc \in {"start", "returned"}
       /\ futures = << >>
       /\ visited_urls = {}
       /\ links_to_crawl = << >>
       /\ pages = EmptyPages
       /\ \A u \in SiteUrls : fetch_count[u] = 0
       /\ (mainpc = "returned" => result = EmptyPages)

InvalidStartReturned ==
    /\ start_url.scheme # "" /\ start_url.netloc = ""
    /\ mainpc = "returned"

\* a step of the main thread that submits a batch to the pool
Dispatches == mainpc = "loop" /\ mainpc' = "collect"

\* C24: the page cap is a soft bound limited to one batch: the number of
\* stored pages never exceeds max_pages - 1 + max_workers, and a batch is
\* dispatched only while fewer than max_pages pages are stored.
PageCapSoftBound ==
    /\ [](PageCount <= max_pages - 1 + max_workers)
    /\ [][ Dispatches => PageCount < max_pages ]_vars

\* the last batch has taken the page store past the cap and the loop has
\* returned
PageCapOvershot ==
    /\ mainpc = "returned"
    /\ PageCount > max_pages
    /\ links_to_crawl # << >>

\* the process_url calls that have not returned
InFlight == { i \in DOMAIN futures : futures[i].pc # "done" }

\* C28: each iteration removes up to max_workers entries from the front of
\* the frontier and submits exactly those; at most max_workers process_url
\* calls are in flight at any moment; a batch is dispatched only when
\* every call of the batch before it has returned and its result has been
\* merged into the page store and the frontier.
BatchBarrier ==
    /\ [](Cardinality(InFlight) <= max_workers)
    /\ [][ Dispatches =>
             /\ Len(futures') <= max_workers
             /\ Len(futures') = Len(links_to_crawl) - Len(links_to_crawl')
             /\ Len(futures') = max_workers \/ links_to_crawl' = << >>
             /\ \A i \in DOMAIN futures' :
                   /\ futures'[i].url = links_to_crawl[i][1]
                   /\ futures'[i].depth = links_to_crawl[i][2]
                   /\ futures'[i].pc = "check"
             /\ \A j \in DOMAIN links_to_crawl' :
                   links_to_crawl'[j] = links_to_crawl[Len(futures') + j]
             /\ \A i \in DOMAIN futures :
                   futures[i].pc = "done" /\ futures[i].merged
             /\ cur = NoCur ]_vars
    /\ [][ \A i \in DOMAIN futures :
             ( i \in DOMAIN futures' /\ futures[i].pc = "done"
               /\ ~futures[i].merged )
             => futures'[i].url = futures[i].url ]_vars

\* a full batch is in flight while the frontier holds entries of a later
\* batch
FullBatchInFlight ==
    /\ max_workers >= 2
    /\ Cardinality(InFlight) = max_workers
    /\ links_to_crawl # << >>

\* C29: each URL key of the page store has been claimed in visited_urls and
\* has the network location of the normalized start URL; no URL of another
\* network location is enqueued, submitted to the pool or stored.
StoredPagesClaimedSameDomain ==
    /\ \A u \in DOMAIN pages :
          /\ u \in visited_urls
          /\ u.netloc = normalize_url(start_url).netloc
    /\ \A j \in DOMAIN links_to_crawl :
          links_to_crawl[j][1].netloc = normalize_url(start_url).netloc
    /\ \A i \in DOMAIN futures :
          futures[i].url.netloc = normalize_url(start_url).netloc

\* the page that links to another domain is stored and its links merged
PageWithOffsiteLinkMerged ==
    /\ Root \in DOMAIN pages
    /\ \E k \in DOMAIN Anchors(pages[Root]) :
          ~Anchors(pages[Root])[k].skip
          /\ Anchors(pages[Root])[k].target.netloc # Root.netloc
    /\ max_depth >= 1
    /\ mainpc = "collect"
    /\ links_to_crawl # << >>
    /\ \A i \in DOMAIN futures : futures[i].merged

(***************************************************************************)
(* Parser.parse_html_batch.  A page of the batch is its URL and the list   *)
(* parse_single_html returns for its html (the empty list when the parse   *)
(* fails).  A module is a record module / Description / Submodules; a      *)
(* dict is the sequence of its items in insertion order.                   *)
(***************************************************************************)
MaxBatchPages == 2
MaxModulesPerPage == 2

Module(name, description, submodules) ==
    [module |-> name, Description |-> description, Submodules |-> submodules]

ParsedModules ==
    { Module("Foo", "first", << >>),
      Module("Foo", "second", << << "sub", "x" >> >>),
      Module("foo", "first", << >>),
      Module("Bar", "", << << "sub", "" >> >>) }

SeqsUpTo(S, n) == UNION { [1..k -> S] : k \in 0..n }

PageUrls == << Root, Doc, P2, P3 >>

Page(i, parsed) == [url |-> PageUrls[i], parsed |-> parsed]

QuickLimit == 20

PageHasKeyword(url) == url.path \in {"/doc"}

\* the subset of the pages quick mode keeps
PagesSubset(ps) ==
    LET priority_pages == SelectSeq(ps, LAMBDA pg : PageHasKeyword(pg.url))
        remaining_pages == SelectSeq(ps, LAMBDA pg : ~PageHasKeyword(pg.url))
        remaining_needed == QuickLimit - Len(priority_pages)
    IN  IF Len(priority_pages) >= QuickLimit
        THEN Take(priority_pages, QuickLimit)
        ELSE IF remaining_needed > 0 /\ remaining_pages # << >>
             THEN priority_pages \o Take(remaining_pages, remaining_needed)
             ELSE priority_pages

\* the pages that are parsed
SelectedPages(ps) ==
    IF quick_mode /\ Len(ps) > QuickLimit THEN PagesSubset(ps) ELSE ps

BatchInit ==
    /\ quick_mode \in BOOLEAN
    /\ \E lists \in SeqsUpTo(SeqsUpTo(ParsedModules, MaxModulesPerPage),
                            MaxBatchPages) :
          batch_pages = [i \in DOMAIN lists |-> Page(i, lists[i])]
    /\ batch_pc = "start"
    /\ pending = {}
    /\ all_modules = << >>
    /\ unique_modules = << >>
    /\ pages_processed = 0
    /\ modules_found = 0

\* the counters are reset and one parse_single_html task is submitted per page
BatchSubmit ==
    /\ batch_pc = "start"
    /\ pending' = DOMAIN SelectedPages(batch_pages)
    /\ all_modules' = << >>
    /\ pages_processed' = 0
    /\ modules_found' = 0
    /\ batch_pc' = "collect"
    /\ UNCHANGED << crawl_vars, format_vars, ext_vars, quick_mode, batch_pages,
                    unique_modules >>

Extend_assign(list, more) == more

\* all_modules.extend(modules)
Extend(list, more) == list \o more

\* as_completed yields the future of page i, in completion order
BatchCollect(i) ==
    /\ batch_pc = "collect"
    /\ i \in pending
    /\ pending' = pending \ {i}
    /\ all_modules' = Extend(all_modules, SelectedPages(batch_pages)[i].parsed)
    /\ modules_found' = modules_found + Len(SelectedPages(batch_pages)[i].parsed)
    /\ pages_processed' = pages_processed + 1
    /\ UNCHANGED << crawl_vars, format_vars, ext_vars, quick_mode, batch_pages, batch_pc,
                    unique_modules >>

RECURSIVE DedupFrom(_, _, _, _)
DedupFrom(ms, i, unique, module_names) ==
    IF i > Len(ms)
    THEN unique
    ELSE IF ms[i].module \notin module_names
         THEN DedupFrom(ms, i + 1, Append(unique, ms[i]),
                        module_names \cup {ms[i].module})
         ELSE DedupFrom(ms, i + 1, unique, module_names)

LastIndexOf(ms, name) ==
    CHOOSE i \in DOMAIN ms :
        ms[i].module = name /\ \A j \in DOMAIN ms : j > i => ms[j].module # name

RemoveDuplicates_last(ms) ==
    LET firsts == DedupFrom(ms, 1, << >>, {})
    IN  [k \in DOMAIN firsts |-> ms[LastIndexOf(ms, firsts[k].module)]]

\* "Remove duplicates based on module name"
RemoveDuplicates(ms) == DedupFrom(ms, 1, << >>, {})

\* every future is collected: the duplicates are removed and the list returned
BatchDedup ==
    /\ batch_pc = "collect"
    /\ pending = {}
    /\ unique_modules' = RemoveDuplicates(all_modules)
    /\ batch_pc' = "done"
    /\ UNCHANGED << crawl_vars, format_vars, ext_vars, quick_mode, batch_pages, pending,
                    all_modules, pages_processed, modules_found >>

BatchNext ==
    \/ BatchSubmit
    \/ \E i \in DOMAIN batch_pages : BatchCollect(i)
    \/ BatchDedup

BatchStartState == CrawlIdle /\ BatchInit /\ FormatIdle /\ ExtIdle

BatchSpec == BatchStartState /\ [][BatchNext]_vars

(***************************************************************************)
(* Properties of parse_html_batch.                                         *)
(***************************************************************************)
NamesOf(ms) == { ms[i].module : i \in DOMAIN ms }

FirstIndexOf(ms, name) ==
    CHOOSE i \in DOMAIN ms :
        ms[i].module = name /\ \A j \in DOMAIN ms : j < i => ms[j].module # name

\* C7: the output of parse_html_batch holds exactly one entry per distinct
\* module name (exact, case-sensitive match), that entry is the first one of
\* the merged list with its description and submodules unchanged, and the
\* output is in first-occurrence order.
DedupKeepsFirst ==
    batch_pc = "done" =>
        /\ NamesOf(unique_modules) = NamesOf(all_modules)
        /\ \A k, l \in DOMAIN unique_modules :
              k # l => unique_modules[k].module # unique_modules[l].module
        /\ \A k \in DOMAIN unique_modules :
              unique_modules[k] =
                  all_modules[FirstIndexOf(all_modules, unique_modules[k].module)]
        /\ \A k, l \in DOMAIN unique_modules :
              k < l => FirstIndexOf(all_modules, unique_modules[k].module)
                       < FirstIndexOf(all_modules, unique_modules[l].module)

DedupDroppedDuplicate ==
    /\ batch_pc = "done"
    /\ \E a, b \in DOMAIN all_modules :
          /\ a < b
          /\ all_modules[a].module = "Foo" /\ all_modules[b].module = "Foo"
          /\ all_modules[a].Description # all_modules[b].Description
          /\ all_modules[a].Submodules # all_modules[b].Submodules
    /\ {"Foo", "foo"} \subseteq NamesOf(unique_modules)

\* C8: for a fixed mapping of pages the set of module names returned by
\* parse_html_batch is the same for every completion order of the workers:
\* it is the set of the names parsed from the selected pages.
NamesOrderIndependent ==
    batch_pc = "done" =>
        NamesOf(unique_modules) =
            UNION { NamesOf(SelectedPages(batch_pages)[i].parsed) :
                       i \in DOMAIN SelectedPages(batch_pages) }

TwoPagesMergedInReverse ==
    /\ batch_pc = "done"
    /\ Len(batch_pages) = 2
    /\ batch_pages[1].parsed # << >> /\ batch_pages[2].parsed # << >>
    /\ NamesOf(batch_pages[1].parsed) # NamesOf(batch_pages[2].parsed)
    /\ all_modules = batch_pages[2].parsed \o batch_pages[1].parsed
    /\ all_modules # batch_pages[1].parsed \o batch_pages[2].parsed

(***************************************************************************)
(* Formatter.format_modules.  A module dict is a record that holds the     *)
(* keys it was given; a Submodules dict is the sequence of its items.      *)
(***************************************************************************)
MaxFormatLen == 3

Sentinel == "No description available"

FormatInputs ==
    { [module |-> "M", Description |-> "text",
       Submodules |-> << << "s", "x" >>, << "t", "" >> >>],
      [module |-> "M"],
      [module |-> "N", Description |-> "",
       Submodules |-> << << "", "e" >>, << "u", "y" >> >>],
      [module |-> "T", description |-> "lower",
       submodules |-> << << "s1", "d1" >> >>],
      [Description |-> "text", Submodules |-> << >>] }

\* dict.get(key, default)
Get(dict, key, default) == IF key \in DOMAIN dict THEN dict[key] ELSE default

\* dict[key] = value
SetItem(items, key, value) ==
    IF \E k \in DOMAIN items : items[k][1] = key
    THEN [k \in DOMAIN items |->
             IF items[k][1] = key THEN << key, value >> ELSE items[k]]
    ELSE Append(items, << key, value >>)

\* if not formatted_module["Description"]: ... = "No description available"
CleanDescription(description) ==
    IF description = "" THEN Sentinel ELSE description

CleanSubmoduleDesc_keep(submodule_desc) == submodule_desc

\* if not submodule_desc: submodule_desc = "No description available"
CleanSubmoduleDesc(submodule_desc) ==
    IF submodule_desc = "" THEN Sentinel ELSE submodule_desc

RECURSIVE CleanSubmodules(_, _, _)
CleanSubmodules(items, k, cleaned_submodules) ==
    IF k > Len(items)
    THEN cleaned_submodules
    ELSE CleanSubmodules(items, k + 1,
             SetItem(cleaned_submodules, items[k][1],
                     CleanSubmoduleDesc(items[k][2])))

FormatModule(module) ==
    [module |-> Get(module, "module", ""),
     Description |-> CleanDescription(Get(module, "Description", "")),
     Submodules |-> CleanSubmodules(Get(module, "Submodules", << >>), 1, << >>)]

RECURSIVE FormatFrom(_, _, _)
FormatFrom(ms, i, formatted) ==
    IF i > Len(ms)
    THEN formatted
    ELSE FormatFrom(ms, i + 1, Append(formatted, FormatModule(ms[i])))

format_modules(ms) == FormatFrom(ms, 1, << >>)

FormatInit ==
    /\ modules \in SeqsUpTo(FormatInputs, MaxFormatLen)
    /\ formatted_modules = << >>
    /\ format_pc = "call"

FormatCall ==
    /\ format_pc = "call"
    /\ formatted_modules' = format_modules(modules)
    /\ format_pc' = "done"
    /\ UNCHANGED << crawl_vars, batch_vars, ext_vars, modules >>

FormatNext == FormatCall

FormatStartState == CrawlIdle /\ BatchIdle /\ FormatInit /\ ExtIdle

FormatSpec == FormatStartState /\ [][FormatNext]_vars

(***************************************************************************)
(* Properties of format_modules.                                           *)
(***************************************************************************)
HasDescription(module) ==
    "Description" \in DOMAIN module /\ module.Description # ""

GivenSubmodules(module) ==
    IF "Submodules" \in DOMAIN module THEN module.Submodules ELSE << >>

\* C9: format_modules replaces a missing or empty module description and
\* every empty submodule description by "No description available" and
\* leaves every non-empty description, the module name, the number of
\* modules and their order unchanged.
FormatFillsSentinel ==
    format_pc = "done" =>
        /\ Len(formatted_modules) = Len(modules)
        /\ \A i \in DOMAIN modules :
              LET given == modules[i]
                  out == formatted_modules[i]
                  subs == GivenSubmodules(given)
              IN  /\ out.module =
                        IF "module" \in DOMAIN given THEN given.module ELSE ""
                  /\ out.Description =
                        IF HasDescription(given) THEN given.Description
                        ELSE "No description available"
                  /\ Len(out.Submodules) = Len(subs)
                  /\ \A k \in DOMAIN subs :
                        /\ out.Submodules[k][1] = subs[k][1]
                        /\ out.Submodules[k][2] =
                              IF subs[k][2] = "" THEN "No description available"
                              ELSE subs[k][2]

FormattedBlankDescriptions ==
    /\ format_pc = "done"
    /\ Len(modules) = 3
    /\ \E i \in DOMAIN modules : "Description" \notin DOMAIN modules[i]
    /\ \E i \in DOMAIN modules :
          /\ "Submodules" \in DOMAIN modules[i]
          /\ \E k \in DOMAIN modules[i].Submodules :
                /\ modules[i].Submodules[k][2] = ""
                /\ formatted_modules[i].Submodules[k][2] = Sentinel
    /\ \E i \in DOMAIN modules :
          HasDescription(modules[i])
          /\ formatted_modules[i].Description = modules[i].Description

\* C10: after format_modules no Submodules mapping holds an empty key.
NoEmptySubmoduleKey ==
    format_pc = "done" =>
        \A i \in DOMAIN formatted_modules :
            \A k \in DOMAIN formatted_modules[i].Submodules :
                formatted_modules[i].Submodules[k][1] # ""

\* C11: format_modules accepts a record that gives its description and its
\* submodules under the lowercase keys description and submodules: the
\* formatted Description is the given description and the formatted
\* Submodules holds every given submodule with its description.
LowercaseKeysAccepted ==
    format_pc = "done" =>
        \A i \in DOMAIN modules :
            ( /\ "description" \in DOMAIN modules[i]
              /\ "submodules" \in DOMAIN modules[i] )
            => /\ formatted_modules[i].Description = modules[i].description
               /\ \A k \in DOMAIN modules[i].submodules :
                     \E l \in DOMAIN formatted_modules[i].Submodules :
                         formatted_modules[i].Submodules[l]
                             = modules[i].submodules[k]

(***************************************************************************)
(* URL utilities on URL text.  A URL text is the sequence of its tokens:   *)
(* "http" and "a" are runs of letters, the others are single characters.   *)
(* urlparse and geturl are computed as urllib.parse computes them.         *)
(***************************************************************************)
MaxUrlLen == 4

UrlTokens == {"http", "a", ":", "/", "#", "?", ";", "["}

SchemeChars == {"http", "a"}

\* the schemes of uses_netloc and of uses_params that the tokens can spell
UsesNetloc == { << >>, << "http" >> }
UsesParams == { << >>, << "http" >> }

NoneText == << "<None>" >>

UrlPrefixes == { << >>, << "http", ":", "/", "/", "a" >> }

UrlTexts ==
    { prefix \o tail : prefix \in UrlPrefixes,
                       tail \in SeqsUpTo(UrlTokens, MaxUrlLen) }
    \cup {NoneText}

Range(s) == { s[i] : i \in DOMAIN s }

MinOf(S) == CHOOSE x \in S : \A y \in S : x <= y
MaxOf(S) == CHOOSE x \in S : \A y \in S : x >= y

\* str.find and str.rfind, 1-based, 0 when absent
Find(s, c, start) ==
    LET idx == { i \in start..Len(s) : s[i] = c }
    IN  IF idx = {} THEN 0 ELSE MinOf(idx)

RFind(s, c) ==
    LET idx == { i \in 1..Len(s) : s[i] = c }
    IN  IF idx = {} THEN 0 ELSE MaxOf(idx)

From(s, i) == SubSeq(s, i, Len(s))

\* s[:n]
Prefix(s, n) == SubSeq(s, 1, IF Len(s) < n THEN Len(s) ELSE n)

\* urllib.parse.urlsplit, in the order of its steps: the scheme, the
\* network location, the fragment, the query
SplitQuery(scheme, netloc, raises, fragment, url) ==
    LET q == Find(url, "?", 1)
    IN  [raises |-> raises, scheme |-> scheme, netloc |-> netloc,
         path |-> IF q > 0 THEN SubSeq(url, 1, q - 1) ELSE url,
         query |-> IF q > 0 THEN From(url, q + 1) ELSE << >>,
         fragment |-> fragment]

SplitFragment(scheme, netloc, raises, url) ==
    LET h == Find(url, "#", 1)
    IN  SplitQuery(scheme, netloc, raises,
                   IF h > 0 THEN From(url, h + 1) ELSE << >>,
                   IF h > 0 THEN SubSeq(url, 1, h - 1) ELSE url)

\* urllib.parse._splitnetloc: the index that ends the network location
SplitNetlocAt(url) ==
    LET delims == { Find(url, c, 3) : c \in {"/", "?", "#"} } \ {0}
    IN  IF delims = {} THEN Len(url) + 1 ELSE MinOf(delims)

SplitNetloc(scheme, url) ==
    IF Len(url) >= 2 /\ url[1] = "/" /\ url[2] = "/"
    THEN SplitFragment(scheme,
                       SubSeq(url, 3, SplitNetlocAt(url) - 1),
                       "[" \in Range(SubSeq(url, 3, SplitNetlocAt(url) - 1)),
                       From(url, SplitNetlocAt(url)))
    ELSE SplitFragment(scheme, << >>, FALSE, url)

urlsplit(url) ==
    LET i == Find(url, ":", 1)
    IN  IF i > 1 /\ \A k \in 1..(i - 1) : url[k] \in SchemeChars
        THEN SplitNetloc(SubSeq(url, 1, i - 1), From(url, i + 1))
        ELSE SplitNetloc(<< >>, url)

\* urllib.parse._splitparams: the index of the ';' that starts the params
SplitParamsAt(url) ==
    IF "/" \in Range(url) THEN Find(url, ";", RFind(url, "/"))
    ELSE Find(url, ";", 1)

\* urllib.parse.urlparse, from the result of urlsplit
ParseOf(r) ==
    IF r.scheme \in UsesParams /\ ";" \in Range(r.path)
       /\ SplitParamsAt(r.path) > 0
    THEN [raises |-> r.raises, scheme |-> r.scheme, netloc |-> r.netloc,
          path |-> SubSeq(r.path, 1, SplitParamsAt(r.path) - 1),
          params |-> From(r.path, SplitParamsAt(r.path) + 1),
          query |-> r.query, fragment |-> r.fragment]
    ELSE [raises |-> r.raises, scheme |-> r.scheme, netloc |-> r.netloc,
          path |-> r.path, params |-> << >>,
          query |-> r.query, fragment |-> r.fragment]

\* urllib.parse.urlparse; None parses to empty components
urlparse(url) ==
    IF url = NoneText
    THEN [raises |-> FALSE, scheme |-> << >>, netloc |-> << >>, path |-> << >>,
          params |-> << >>, query |-> << >>, fragment |-> << >>]
    ELSE ParseOf(urlsplit(url))

\* urllib.parse.urlunsplit, from the path with its params
UnsplitQuery(url, query, fragment) ==
    IF fragment # << >>
    THEN (IF query # << >> THEN url \o << "?" >> \o query ELSE url)
         \o << "#" >> \o fragment
    ELSE (IF query # << >> THEN url \o << "?" >> \o query ELSE url)

UnsplitScheme(scheme, url, query, fragment) ==
    UnsplitQuery(IF scheme # << >> THEN scheme \o << ":" >> \o url ELSE url,
                 query, fragment)

urlunsplit(scheme, netloc, url, query, fragment) ==
    IF netloc # << >>
       \/ ( /\ scheme # << >>
            /\ scheme \in UsesNetloc
            /\ Prefix(url, 2) # << "/", "/" >> )
    THEN UnsplitScheme(scheme,
                       << "/", "/" >> \o netloc
                       \o (IF url # << >> /\ url[1] # "/"
                           THEN << "/" >> \o url ELSE url),
                       query, fragment)
    ELSE UnsplitScheme(scheme, url, query, fragment)

\* ParseResult.geturl: urlunparse, then urlunsplit
geturl(parsed) ==
    urlunsplit(parsed.scheme, parsed.netloc,
               IF parsed.params # << >>
               THEN parsed.path \o << ";" >> \o parsed.params
               ELSE parsed.path,
               parsed.query, parsed.fragment)

\* utils.is_valid_url on URL text: "True" or "False", never an exception
is_valid_url_text_any(url) ==
    IF urlparse(url).raises THEN "False"
    ELSE IF urlparse(url).scheme # << >> \/ urlparse(url).netloc # << >>
         THEN "True" ELSE "False"

is_valid_url_text(url) ==
    IF urlparse(url).raises THEN "False"
    ELSE IF urlparse(url).scheme # << >> /\ urlparse(url).netloc # << >>
         THEN "True" ELSE "False"

normalize_url_text_noquery(url) ==
    IF urlparse(url).raises THEN url
    ELSE geturl([urlparse(url) EXCEPT !.fragment = << >>, !.query = << >>])

\* utils.normalize_url on URL text
normalize_url_text(url) ==
    IF urlparse(url).raises THEN url
    ELSE geturl([urlparse(url) EXCEPT !.fragment = << >>])

UrlInit ==
    /\ url_in \in UrlTexts
    /\ url_norm = << >>
    /\ url_norm2 = << >>
    /\ url_valid = ""
    /\ url_pc = "call"

\* normalize_url(url)
UrlNormalize ==
    /\ url_pc = "call"
    /\ url_norm' = normalize_url_text(url_in)
    /\ url_pc' = "normalized"
    /\ UNCHANGED << crawl_vars, batch_vars, format_vars, url_others,
                    url_in, url_norm2, url_valid >>

\* normalize_url(normalize_url(url))
UrlNormalizeAgain ==
    /\ url_pc = "normalized"
    /\ url_norm2' = normalize_url_text(url_norm)
    /\ url_pc' = "again"
    /\ UNCHANGED << crawl_vars, batch_vars, format_vars, url_others,
                    url_in, url_norm, url_valid >>

\* is_valid_url(url)
UrlValidate ==
    /\ url_pc = "again"
    /\ url_valid' = is_valid_url_text(url_in)
    /\ url_pc' = "done"
    /\ UNCHANGED << crawl_vars, batch_vars, format_vars, url_others,
                    url_in, url_norm, url_norm2 >>

UrlNext == UrlNormalize \/ UrlNormalizeAgain \/ UrlValidate

UrlStartState ==
    /\ CrawlIdle /\ BatchIdle /\ FormatIdle
    /\ UrlInit /\ HeadingIdle /\ ListIdle /\ MinerIdle
    /\ FetchIdle /\ ParseIdle

UrlSpec == UrlStartState /\ [][UrlNext]_vars

NormalizeEndsWithSlash ==
    ( /\ url_pc \in {"normalized", "again", "done"}
      /\ ~urlparse(url_in).raises
      /\ urlparse(url_in).scheme # << >> /\ urlparse(url_in).netloc # << >>
      /\ urlparse(url_in).fragment = << >> )
    => LET path == urlparse(url_norm).path
       IN  /\ path # << >> /\ path[Len(path)] = "/"
           /\ ( urlparse(url_in).path # << >>
                /\ urlparse(url_in).path[Len(urlparse(url_in).path)] = "/"
                /\ url_in = geturl(urlparse(url_in)) )
              => url_norm = url_in

\* C14: is_valid_url(s) is true exactly when s parses to a URL with a
\* non-empty scheme and a non-empty network location, and is false, without
\* raising, for None, the empty string and malformed input.
ValidIffSchemeAndNetloc ==
    url_pc = "done" =>
        /\ url_valid \in {"True", "False"}
        /\ url_valid = "True" <=>
              ( /\ ~urlparse(url_in).raises
                /\ urlparse(url_in).scheme # << >>
                /\ urlparse(url_in).netloc # << >> )
        /\ url_in \in {NoneText, << >>, << "a" >>} => url_valid = "False"
        /\ urlparse(url_in).raises => url_valid = "False"
        /\ url_in = << "http", ":", "/", "/", "a" >> => url_valid = "True"
        /\ url_in = << "http", ":", "a" >> => url_valid = "False"

MalformedUrlRejected ==
    /\ url_pc = "done"
    /\ urlparse(url_in).raises
    /\ Len(url_in) > 5
    /\ url_valid = "False"

(***************************************************************************)
(* Text.  A string is the sequence of its runs << character, count >>, no  *)
(* two neighbouring runs of the same character, so that the lengths the    *)
(* passes compare with 100, 200 and 500 are lengths of real strings.       *)
(***************************************************************************)
Str(c, n) == IF n = 0 THEN << >> ELSE << << c, n >> >>

RECURSIVE StrLen(_)
StrLen(s) == IF s = << >> THEN 0 ELSE s[1][2] + StrLen(Tail(s))

\* a + b
Concat(a, b) ==
    IF a = << >> THEN b
    ELSE IF b = << >> THEN a
    ELSE IF a[Len(a)][1] = b[1][1]
         THEN SubSeq(a, 1, Len(a) - 1)
              \o << << b[1][1], a[Len(a)][2] + b[1][2] >> >> \o Tail(b)
         ELSE a \o b

\* s[:n]
RECURSIVE StrTake(_, _)
StrTake(s, n) ==
    IF s = << >> \/ n <= 0 THEN << >>
    ELSE IF s[1][2] >= n THEN << << s[1][1], n >> >>
    ELSE << s[1] >> \o StrTake(Tail(s), n - s[1][2])

\* text.strip()
Strip(s) ==
    SelectSeq([i \in DOMAIN s |->
                  IF s[i][1] = " " /\ i \in {1, Len(s)} THEN << " ", 0 >>
                  ELSE s[i]],
              LAMBDA r : r[2] > 0)

\* utils.clean_text: re.sub(r'\s+', ' ', text).strip()
clean_text(text) ==
    Strip([i \in DOMAIN text |->
              IF text[i][1] = " " THEN << " ", 1 >> ELSE text[i]])

(***************************************************************************)
(* Parser.extract_modules_from_headings over a content node whose children *)
(* are headings, paragraphs and other tags; one step per heading of the    *)
(* loop.                                                                   *)
(***************************************************************************)
MaxNodes == 4

HeadingLimit == 100
DescriptionLimit == 500

HeadingTags == {"h1", "h2", "h3", "h4"}
TextTags == {"p", "div", "span", "section"}

Node(name, text) == [name |-> name, text |-> text]

Nodes ==
    { Node("h1", Str("W", 7)),
      Node("h2", Str("V", 5)),
      Node("h3", Str("G", 6)),
      Node("h4", Str("K", 4)),
      Node("h3", Str("W", 7)),
      Node("h1", Str("L", HeadingLimit + 1)),
      Node("h3", Str(" ", 2)),
      Node("p", Str(" ", 1) \o Str("d", 4) \o Str(" ", 2) \o Str("e", 1)),
      Node("p", Str("x", DescriptionLimit + 1)),
      Node("ul", Str("i", 3)) }

Contents == SeqsUpTo(Nodes, MaxNodes)

\* content.find_all(['h1', ..., 'h6']), sorted by source line: positions
RECURSIVE headings(_, _)
headings(doc, from) ==
    IF from > Len(doc) THEN << >>
    ELSE IF doc[from].name \in HeadingTags
         THEN << from >> \o headings(doc, from + 1)
         ELSE headings(doc, from + 1)

\* int(heading.name[1])
LevelOf(name) ==
    CASE name = "h1" -> 1 [] name = "h2" -> 2
      [] name = "h3" -> 3 [] name = "h4" -> 4

\* description[:500] + "..."
Truncate(description) ==
    Concat(StrTake(description, DescriptionLimit), Str(".", 3))

\* the sibling scan of lines 152-172: the text of the following siblings up
\* to the next tag whose name starts with 'h'
RECURSIVE Siblings(_, _, _)
Siblings(doc, j, description) ==
    IF j > Len(doc) THEN description
    ELSE IF doc[j].name \in HeadingTags THEN description
    ELSE IF doc[j].name \in TextTags
            /\ StrLen(Concat(Concat(description, doc[j].text), Str(" ", 1)))
                   > DescriptionLimit
         THEN Truncate(Concat(Concat(description, doc[j].text), Str(" ", 1)))
         ELSE Siblings(doc, j + 1,
                  IF doc[j].name \in TextTags
                  THEN Concat(Concat(description, doc[j].text), Str(" ", 1))
                  ELSE description)

DescriptionAt_self(doc, pos) == clean_text(Siblings(doc, pos, << >>))

\* description of the heading at position pos: next_element starts at
\* heading.next_sibling
DescriptionAt(doc, pos) == clean_text(Siblings(doc, pos + 1, << >>))

\* the heading the loop is at, its text and its level
HeadingPos == headings(content, 1)[heading_i]
HeadingText == clean_text(content[HeadingPos].text)
HeadingLevel == LevelOf(content[HeadingPos].name)

HeadingInit ==
    /\ content \in Contents
    /\ heading_i = 1
    /\ heap = << >>
    /\ heading_modules = << >>
    /\ current_module = 0
    /\ heading_stack = << >>
    /\ heading_pc = "loop"

InLoop == heading_pc = "loop" /\ heading_i <= Len(headings(content, 1))

Accepted(heading_text) ==
    heading_text # << >> /\ StrLen(heading_text) <= HeadingLimit

\* if not heading_text or len(heading_text) > 100: continue
HeadingSkip ==
    /\ InLoop
    /\ ~Accepted(HeadingText)
    /\ heading_i' = heading_i + 1
    /\ UNCHANGED << crawl_vars, batch_vars, format_vars, heading_others,
                    content, heap, heading_modules, current_module,
                    heading_stack, heading_pc >>

\* if level <= 2: a new module, its frame pushed on the stack as it is
HeadingModule_push ==
    /\ InLoop
    /\ Accepted(HeadingText)
    /\ HeadingLevel <= 2
    /\ heap' = Append(heap, Module(HeadingText,
                                   DescriptionAt(content, HeadingPos), << >>))
    /\ current_module' = Len(heap) + 1
    /\ heading_modules' = Append(heading_modules, Len(heap) + 1)
    /\ heading_stack' = Append(heading_stack,
                               << HeadingLevel, Len(heap) + 1 >>)
    /\ heading_i' = heading_i + 1
    /\ UNCHANGED << crawl_vars, batch_vars, format_vars, heading_others,
                    content, heading_pc >>

\* if level <= 2: a new module, and the stack replaced by its frame
HeadingModule ==
    /\ InLoop
    /\ Accepted(HeadingText)
    /\ HeadingLevel <= 2
    /\ heap' = Append(heap, Module(HeadingText,
                                   DescriptionAt(content, HeadingPos), << >>))
    /\ current_module' = Len(heap) + 1
    /\ heading_modules' = Append(heading_modules, Len(heap) + 1)
    /\ heading_stack' = << << HeadingLevel, Len(heap) + 1 >> >>
    /\ heading_i' = heading_i + 1
    /\ UNCHANGED << crawl_vars, batch_vars, format_vars, heading_others,
                    content, heading_pc >>

\* while heading_stack and heading_stack[-1][0] > level: heading_stack.pop()
RECURSIVE PopTo_gt(_, _)
PopTo_gt(stack, level) ==
    IF stack # << >> /\ stack[Len(stack)][1] > level
    THEN PopTo_gt(SubSeq(stack, 1, Len(stack) - 1), level)
    ELSE stack

\* while heading_stack and heading_stack[-1][0] >= level: heading_stack.pop()
RECURSIVE PopTo(_, _)
PopTo(stack, level) ==
    IF stack # << >> /\ stack[Len(stack)][1] >= level
    THEN PopTo(SubSeq(stack, 1, Len(stack) - 1), level)
    ELSE stack

\* current_module["Submodules"][heading_text] = description, whatever the
\* stack holds
ParentOf_current(stack) == current_module

\* the dict the submodule is written to: the top frame's, or current_module
ParentOf(stack) ==
    IF stack = << >> THEN current_module ELSE stack[Len(stack)][2]

\* elif current_module: the heading becomes a submodule of its parent and a
\* frame of its own
HeadingSubmodule ==
    /\ InLoop
    /\ Accepted(HeadingText)
    /\ HeadingLevel > 2
    /\ current_module # 0
    /\ heap' = Append(
                 [heap EXCEPT ![ParentOf(PopTo(heading_stack, HeadingLevel))]
                                   .Submodules =
                      SetItem(@, HeadingText,
                              DescriptionAt(content, HeadingPos))],
                 Module(HeadingText, DescriptionAt(content, HeadingPos),
                        << >>))
    /\ heading_stack' = Append(PopTo(heading_stack, HeadingLevel),
                               << HeadingLevel, Len(heap) + 1 >>)
    /\ heading_i' = heading_i + 1
    /\ UNCHANGED << crawl_vars, batch_vars, format_vars, heading_others,
                    content, heading_modules, current_module, heading_pc >>

\* a heading of level > 2 before any module: nothing is done
HeadingOrphan ==
    /\ InLoop
    /\ Accepted(HeadingText)
    /\ HeadingLevel > 2
    /\ current_module = 0
    /\ heading_i' = heading_i + 1
    /\ UNCHANGED << crawl_vars, batch_vars, format_vars, heading_others,
                    content, heap, heading_modules, current_module,
                    heading_stack, heading_pc >>

\* return modules
HeadingReturn ==
    /\ heading_pc = "loop"
    /\ heading_i > Len(headings(content, 1))
    /\ heading_pc' = "done"
    /\ UNCHANGED << crawl_vars, batch_vars, format_vars, heading_others,
                    content, heading_i, heap, heading_modules,
                    current_module, heading_stack >>

HeadingNext ==
    \/ HeadingSkip
    \/ HeadingModule
    \/ HeadingSubmodule
    \/ HeadingOrphan
    \/ HeadingReturn

HeadingStartState ==
    /\ CrawlIdle /\ BatchIdle /\ FormatIdle
    /\ UrlIdle /\ HeadingInit /\ ListIdle /\ MinerIdle
    /\ FetchIdle /\ ParseIdle

HeadingSpec == HeadingStartState /\ [][HeadingNext]_vars

(***************************************************************************)
(* Properties of the heading pass.                                         *)
(***************************************************************************)
\* the list the method returns
Returned == [i \in DOMAIN heading_modules |-> heap[heading_modules[i]]]

\* a top-level heading, paragraph text, a deeper heading, paragraph text
HeadingExample ==
    /\ Len(content) = 4
    /\ content[1].name \in {"h1", "h2"}
    /\ content[2].name = "p"
    /\ content[3].name \in {"h3", "h4"}
    /\ content[4].name = "p"

\* C15: for a level <= 2 heading followed by paragraph text and then a level
\* > 2 heading with its own paragraph text, the heading pass returns exactly
\* one module: its name is the first heading's text, its Description the
\* text between the two headings, and its Submodules maps the second
\* heading's text to the text that follows it.
HeadingExampleOneModule ==
    ( heading_pc = "done" /\ HeadingExample )
    => Returned =
         << Module(clean_text(content[1].text),
                   clean_text(content[2].text),
                   << << clean_text(content[3].text),
                         clean_text(content[4].text) >> >>) >>

\* C15 as amended: the same, when both heading texts are non-empty and at
\* most 100 characters long and each paragraph text with its separating
\* space is at most 500 characters long; the texts are compared after
\* clean_text.
HeadingExampleWithinLimits ==
    ( /\ heading_pc = "done"
      /\ HeadingExample
      /\ \A i \in {1, 3} :
            /\ clean_text(content[i].text) # << >>
            /\ StrLen(clean_text(content[i].text)) <= HeadingLimit
      /\ \A i \in {2, 4} : StrLen(content[i].text) + 1 <= DescriptionLimit )
    => Returned =
         << Module(clean_text(content[1].text),
                   clean_text(content[2].text),
                   << << clean_text(content[3].text),
                         clean_text(content[4].text) >> >>) >>

HeadingExampleReturned ==
    /\ heading_pc = "done"
    /\ HeadingExample
    /\ Len(Returned) = 1
    /\ Returned[1].Description # << >>
    /\ Len(Returned[1].Submodules) = 1
    /\ Returned[1].Submodules[1][2] # << >>

(***************************************************************************)
(* The stack of the heading pass.                                          *)
(***************************************************************************)
\* the number of frames left on heading_stack once every frame from the top
\* down to the last frame of a level below `level` is popped
KeptFrames(level) ==
    LET lower == { k \in DOMAIN heading_stack : heading_stack[k][1] < level }
    IN  IF lower = {} THEN 0 ELSE MaxOf(lower)

\* a step of the loop that takes an accepted heading
TakesHeading ==
    /\ InLoop
    /\ Accepted(HeadingText)
    /\ heading_i' = heading_i + 1

\* C25: an accepted heading of level > 2 that follows a top-level heading
\* pops the stack while the top frame's level is >= its own, is written
\* (name -> description) into the Submodules of the frame then on top and of
\* no other frame, and is pushed as a new frame with no submodules; an
\* accepted heading of level <= 2 appends a new module to the output and
\* replaces the whole stack by that module's single frame.
HeadingStackDiscipline ==
    [][ TakesHeading =>
          /\ ( HeadingLevel > 2 /\ current_module # 0 ) =>
                /\ KeptFrames(HeadingLevel) > 0
                /\ heading_stack' =
                       Append(SubSeq(heading_stack, 1,
                                     KeptFrames(HeadingLevel)),
                              << HeadingLevel, Len(heap) + 1 >>)
                /\ Len(heap') = Len(heap) + 1
                /\ heap'[Len(heap) + 1] =
                       Module(HeadingText,
                              DescriptionAt(content, HeadingPos), << >>)
                /\ \A k \in DOMAIN heap :
                      heap'[k] =
                        IF k = heading_stack[KeptFrames(HeadingLevel)][2]
                        THEN [heap[k] EXCEPT !.Submodules =
                                 SetItem(@, HeadingText,
                                         DescriptionAt(content, HeadingPos))]
                        ELSE heap[k]
                /\ heading_modules' = heading_modules
          /\ HeadingLevel <= 2 =>
                /\ heap' = Append(heap,
                              Module(HeadingText,
                                     DescriptionAt(content, HeadingPos),
                                     << >>))
                /\ heading_modules' = Append(heading_modules, Len(heap) + 1)
                /\ heading_stack' = << << HeadingLevel, Len(heap) + 1 >> >>
      ]_vars

\* a second heading of one level has popped the first: both are submodules
\* of the module, and the frame on top is the second's
SiblingHeadingPopped ==
    /\ Len(heap) = 3
    /\ Len(heading_stack) = 2
    /\ heading_stack[2][2] = 3
    /\ heading_stack[2][1] = 3
    /\ Len(heap[1].Submodules) = 2

\* C26: after every processed heading, once a first module exists, the
\* stack is non-empty, its frame levels increase strictly from bottom to
\* top and its bottom frame is the current top-level module, of level <= 2;
\* so a heading of level > 2 always finds a frame of a lower level and the
\* branch for an emptied stack is never taken.
HeadingStackInvariant ==
    heading_modules # << >> =>
        /\ heading_stack # << >>
        /\ \A k \in 1..(Len(heading_stack) - 1) :
              heading_stack[k][1] < heading_stack[k + 1][1]
        /\ heading_stack[1][1] <= 2
        /\ heading_stack[1][2] = current_module
        /\ current_module = heading_modules[Len(heading_modules)]
        /\ ( InLoop /\ Accepted(HeadingText) /\ HeadingLevel > 2 ) =>
              KeptFrames(HeadingLevel) > 0

\* a module, a heading below it and a heading below that one
ThreeFramesDeep ==
    /\ Len(heading_stack) = 3
    /\ heading_stack[1][2] = current_module
    /\ heading_stack[3][1] = 4

\* C27: the returned list is nested one level deep.  A heading of level > 2
\* enters a returned module's Submodules exactly when the frame on top
\* after popping is that module's own frame, the bottom one; when the frame
\* on top is another heading's of level > 2 the heading is written into
\* that frame only and the returned list does not change; before any
\* heading of level <= 2 it is dropped.
HeadingSingleNesting ==
    [][ ( TakesHeading /\ HeadingLevel > 2 ) =>
          IF current_module = 0
          THEN Returned = << >> /\ Returned' = << >> /\ heap' = heap
          ELSE IF KeptFrames(HeadingLevel) = 1
          THEN /\ heading_stack[1][2] \in Range(heading_modules)
               /\ Returned' =
                    [i \in DOMAIN Returned |->
                        IF heading_modules[i] = heading_stack[1][2]
                        THEN [Returned[i] EXCEPT !.Submodules =
                                 SetItem(@, HeadingText,
                                         DescriptionAt(content, HeadingPos))]
                        ELSE Returned[i]]
          ELSE /\ KeptFrames(HeadingLevel) > 1
               /\ heading_stack[KeptFrames(HeadingLevel)][2]
                      \notin Range(heading_modules)
               /\ Returned' = Returned
               /\ heap'[heading_stack[KeptFrames(HeadingLevel)][2]]
                      .Submodules =
                    SetItem(heap[heading_stack[KeptFrames(HeadingLevel)][2]]
                                .Submodules,
                            HeadingText, DescriptionAt(content, HeadingPos))
      ]_vars

\* the pass has returned one module with one submodule, and a heading below
\* that submodule was written into a frame the list does not hold
DeeperHeadingDetached ==
    /\ heading_pc = "done"
    /\ Len(Returned) = 1
    /\ Len(Returned[1].Submodules) = 1
    /\ \E k \in DOMAIN heap :
          /\ k \notin Range(heading_modules)
          /\ heap[k].Submodules # << >>
          /\ heap[k].Submodules[1][1] # Returned[1].Submodules[1][1]

(***************************************************************************)
(* More text operations, on runs.                                          *)
(***************************************************************************)
\* the runs of s, without empty runs and with neighbours of one character
\* joined
RECURSIVE Runs(_)
Runs(s) ==
    IF s = << >> THEN << >>
    ELSE Concat(Str(s[1][1], s[1][2]), Runs(Tail(s)))

\* the first run of character c, 0 when c is not in s
RunOf(s, c) ==
    IF \E i \in DOMAIN s : s[i][1] = c
    THEN MinOf({ i \in DOMAIN s : s[i][1] = c })
    ELSE 0

\* c in s
Contains(s, c) == RunOf(s, c) > 0

\* s.split(c, 1)[0] and s.split(c, 1)[1], for c in s
Before(s, c) == SubSeq(s, 1, RunOf(s, c) - 1)

After(s, c) ==
    Runs(<< << c, s[RunOf(s, c)][2] - 1 >> >>
         \o SubSeq(s, RunOf(s, c) + 1, Len(s)))

\* the runs where ' - ' occurs in s
DashRuns(s) ==
    { i \in 2..(Len(s) - 1) :
        s[i] = << "-", 1 >> /\ s[i - 1][1] = " " /\ s[i + 1][1] = " " }

\* s.split(' - ', 1)[1], for ' - ' in s
AfterDash(s) ==
    Runs(<< << " ", s[MinOf(DashRuns(s)) + 1][2] - 1 >> >>
         \o SubSeq(s, MinOf(DashRuns(s)) + 2, Len(s)))

\* sub starts in run p of s
OccursAt(s, sub, p) ==
    /\ p + Len(sub) - 1 <= Len(s)
    /\ s[p][1] = sub[1][1] /\ s[p][2] >= sub[1][2]
    /\ \A k \in 2..(Len(sub) - 1) : s[p + k - 1] = sub[k]
    /\ Len(sub) > 1 =>
          /\ s[p + Len(sub) - 1][1] = sub[Len(sub)][1]
          /\ s[p + Len(sub) - 1][2] >= sub[Len(sub)][2]

\* sub in s
Occurs(s, sub) == sub = << >> \/ \E p \in DOMAIN s : OccursAt(s, sub, p)

\* s with the occurrence of sub that starts in run p cut out
CutAt(s, sub, p) ==
    Runs(SubSeq(s, 1, p - 1)
         \o ( IF Len(sub) = 1
              THEN << << s[p][1], s[p][2] - sub[1][2] >> >>
              ELSE << << s[p][1], s[p][2] - sub[1][2] >>,
                      << s[p + Len(sub) - 1][1],
                         s[p + Len(sub) - 1][2] - sub[Len(sub)][2] >> >> )
         \o SubSeq(s, p + Len(sub), Len(s)))

\* s.replace(sub, '', 1)
Replace(s, sub) ==
    IF sub = << >> \/ ~Occurs(s, sub) THEN s
    ELSE CutAt(s, sub, MinOf({ p \in DOMAIN s : OccursAt(s, sub, p) }))

(***************************************************************************)
(* Parser.extract_modules_from_lists over one list element; one step per   *)
(* list item.  An item is the sequence of its children: anchors, text,     *)
(* class-hinted spans and class-hinted nested lists.                       *)
(***************************************************************************)
MaxItems == 2

ItemLimit == 200
SubItemLimit == 100
PhraseLimit == 50
ListItemsLimit == 50

NoText == << >>

Child(name, class, title, text, items) ==
    [name |-> name, class |-> class, title |-> title, text |-> text,
     items |-> items]

Link(text, title) == Child("a", "", title, text, << >>)
Text(text) == Child("#text", "", NoText, text, << >>)
Span(class, text) == Child("span", class, NoText, text, << >>)
NestedList(items) == Child("ul", "sub", NoText, NoText, items)

\* an item of a nested list: an optional anchor and the text after it
NestedItem(link, a, rest) == [link |-> link, a |-> a, rest |-> rest]

Items ==
    { << Link(Str("X", 3), Str("T", 4) \o Str(" ", 1) \o Str("t", 4)) >>,
      << Link(Str("Y", 3), NoText),
         Text(Str(":", 1) \o Str(" ", 1) \o Str("d", 4) \o Str(" ", 1)
              \o Str("s", 5)) >>,
      << Link(Str("Z", 3), NoText) >>,
      << Text(Str("p", 5)) >>,
      << Text(Str("N", 2) \o Str(":", 1) \o Str(" ", 1) \o Str("d", 2)) >>,
      << Link(Str("Q", 2), NoText),
         Text(Str(" ", 1) \o Str("-", 1) \o Str(" ", 1) \o Str("q", 3)) >>,
      << Link(Str("S", 2), NoText),
         Span("desc", Str(" ", 1)),
         NestedList(<< NestedItem(TRUE, Str("u", 2), NoText),
                       NestedItem(FALSE, NoText,
                                  Str("v", 2) \o Str(":", 1) \o Str(" ", 1)
                                  \o Str("w", 2)) >>) >>,
      << Link(Str("X", 3), Str("T", ItemLimit + 1)) >>,
      << Text(Str("x", ItemLimit + 1)) >>,
      << Text(Str(" ", 2)) >>,
      << Link(Str("X", 3), Str("X", 3)) >>,
      << Span("name", Str("E", 3)), Text(Str(" ", 1) \o Str("r", 4)) >> }

Lists ==
    { [hinted |-> h, items |-> is] :
        h \in BOOLEAN, is \in SeqsUpTo(Items, MaxItems) }

\* get_text() of the items of a nested list
RECURSIVE NestedText(_)
NestedText(items) ==
    IF items = << >> THEN NoText
    ELSE Concat(Concat(items[1].a, items[1].rest), NestedText(Tail(items)))

\* item.get_text()
RECURSIVE get_text(_)
get_text(item) ==
    IF item = << >> THEN NoText
    ELSE Concat(IF item[1].items # << >> THEN NestedText(item[1].items)
                ELSE item[1].text,
                get_text(Tail(item)))

\* the anchors below a nested list, in document order
NestedLinks(items) ==
    [i \in DOMAIN SelectSeq(items, LAMBDA n : n.link) |->
        Link(SelectSeq(items, LAMBDA n : n.link)[i].a, NoText)]

\* the anchors below an item, in document order: item.find('a') is the first
RECURSIVE Links(_)
Links(item) ==
    IF item = << >> THEN << >>
    ELSE ( IF item[1].name = "a" THEN << item[1] >>
           ELSE NestedLinks(item[1].items) )
         \o Links(Tail(item))

\* item.find([...], class_=...) for the class hints of a name and of a
\* description
Emphasis(item) == SelectSeq(item, LAMBDA c : c.class \in {"title", "name", "module"})
DescElements(item) == SelectSeq(item, LAMBDA c : c.class \in {"desc", "summary", "info"})

\* the name parts[0] of a text without anchor and emphasis (lines 272-276)
Phrase(text) ==
    IF Contains(text, ":") /\ StrLen(Before(text, ":")) < PhraseLimit
    THEN clean_text(Before(text, ":"))
    ELSE text

\* the name of an anchor without its title
LinkName_text(link) == clean_text(link.text)

\* the name of an anchor: its title when it has one that differs from its
\* text (lines 262-267)
LinkName(link) ==
    IF /\ link.title # NoText
       /\ clean_text(link.title) # NoText
       /\ clean_text(link.title) # clean_text(link.text)
    THEN clean_text(link.title)
    ELSE clean_text(link.text)

\* module_name of lines 257-276
ItemName(item) ==
    IF Links(item) # << >> THEN LinkName(Links(item)[1])
    ELSE IF Emphasis(item) # << >> THEN clean_text(Emphasis(item)[1].text)
    ELSE Phrase(clean_text(get_text(item)))

\* the item text minus the name (lines 285-292)
TextMinusName(text, name) ==
    IF name # NoText /\ name # text
    THEN ( IF Contains(text, ":") THEN clean_text(After(text, ":"))
           ELSE IF DashRuns(text) # {} THEN clean_text(AfterDash(text))
           ELSE clean_text(Replace(text, name)) )
    ELSE NoText

\* description of lines 279-292
ItemDescription(item) ==
    IF DescElements(item) # << >> THEN clean_text(DescElements(item)[1].text)
    ELSE TextMinusName(clean_text(get_text(item)), ItemName(item))

\* nested_list.find_all(['li', 'a', 'div', 'span']): every item, followed by
\* its anchor
RECURSIVE NestedItems(_)
NestedItems(items) ==
    IF items = << >> THEN << >>
    ELSE << items[1] >>
         \o ( IF items[1].link
              THEN << NestedItem(FALSE, NoText, items[1].a) >> ELSE << >> )
         \o NestedItems(Tail(items))

SubmoduleText(n) == clean_text(Concat(n.a, n.rest))

SubmoduleName(n) ==
    IF n.link THEN clean_text(n.a) ELSE Phrase(SubmoduleText(n))

\* lines 302-347: submodules[submodule_name] = submodule_description, when
\* the name is not yet a key
RECURSIVE AddSubmodules(_, _)
AddSubmodules(nested_items, submodules) ==
    IF nested_items = << >> THEN submodules
    ELSE AddSubmodules(Tail(nested_items),
           IF /\ SubmoduleText(nested_items[1]) # NoText
              /\ StrLen(SubmoduleText(nested_items[1])) <= SubItemLimit
              /\ SubmoduleName(nested_items[1]) # NoText
              /\ \A k \in DOMAIN submodules :
                    submodules[k][1] # SubmoduleName(nested_items[1])
           THEN Append(submodules,
                  << SubmoduleName(nested_items[1]),
                     TextMinusName(SubmoduleText(nested_items[1]),
                                   SubmoduleName(nested_items[1])) >>)
           ELSE submodules)

\* submodules of lines 295-347, over the nested lists of the item
RECURSIVE ItemSubmodules(_, _)
ItemSubmodules(item, submodules) ==
    IF item = << >> THEN submodules
    ELSE ItemSubmodules(Tail(item),
           IF item[1].class = "sub"
           THEN AddSubmodules(NestedItems(item[1].items), submodules)
           ELSE submodules)

ShouldEmit_name(module_name, description, submodules) == module_name # NoText

\* if module_name and (description or submodules)
ShouldEmit(module_name, description, submodules) ==
    module_name # NoText /\ (description # NoText \/ submodules # << >>)

ListInit ==
    /\ list_element \in Lists
    /\ item_i = 1
    /\ list_modules = << >>
    /\ list_from = << >>
    /\ list_pc = "loop"

\* the list is neither very small nor, without a class hint, very large
Usable(list) ==
    /\ Len(list.items) >= 2
    /\ Len(list.items) > ListItemsLimit => list.hinted

InItems ==
    /\ list_pc = "loop"
    /\ Usable(list_element)
    /\ item_i <= Len(list_element.items)

Item == list_element.items[item_i]

ItemAccepted ==
    /\ clean_text(get_text(Item)) # NoText
    /\ StrLen(clean_text(get_text(Item))) <= ItemLimit

\* if not item_text or len(item_text) > 200: continue
ItemSkip ==
    /\ InItems
    /\ ~ItemAccepted
    /\ item_i' = item_i + 1
    /\ UNCHANGED << crawl_vars, batch_vars, format_vars, list_others,
                    list_element, list_modules, list_from, list_pc >>

\* modules.append(module)
ItemEmit ==
    /\ InItems
    /\ ItemAccepted
    /\ ShouldEmit(ItemName(Item), ItemDescription(Item),
                  ItemSubmodules(Item, << >>))
    /\ list_modules' = Append(list_modules,
                              Module(ItemName(Item), ItemDescription(Item),
                                     ItemSubmodules(Item, << >>)))
    /\ list_from' = Append(list_from, item_i)
    /\ item_i' = item_i + 1
    /\ UNCHANGED << crawl_vars, batch_vars, format_vars, list_others,
                    list_element, list_pc >>

\* the item has no name, or neither description nor submodules
ItemDrop ==
    /\ InItems
    /\ ItemAccepted
    /\ ~ShouldEmit(ItemName(Item), ItemDescription(Item),
                   ItemSubmodules(Item, << >>))
    /\ item_i' = item_i + 1
    /\ UNCHANGED << crawl_vars, batch_vars, format_vars, list_others,
                    list_element, list_modules, list_from, list_pc >>

\* return modules
ListReturn ==
    /\ list_pc = "loop"
    /\ ~Usable(list_element) \/ item_i > Len(list_element.items)
    /\ list_pc' = "done"
    /\ UNCHANGED << crawl_vars, batch_vars, format_vars, list_others,
                    list_element, item_i, list_modules, list_from >>

ListNext == ItemSkip \/ ItemEmit \/ ItemDrop \/ ListReturn

ListStartState ==
    /\ CrawlIdle /\ BatchIdle /\ FormatIdle
    /\ UrlIdle /\ HeadingIdle /\ ListInit /\ MinerIdle
    /\ FetchIdle /\ ParseIdle

ListSpec == ListStartState /\ [][ListNext]_vars

(***************************************************************************)
(* Properties of the list pass.                                            *)
(***************************************************************************)
\* the items the loop has gone through
Processed ==
    IF Usable(list_element) THEN 1..(item_i - 1) ELSE {}

\* the module built from item i is named name and described by description
EmittedAs(i, name, description) ==
    \E k \in DOMAIN list_modules :
        /\ list_from[k] = i
        /\ list_modules[k].module = name
        /\ list_modules[k].Description = description

\* <li><a title="T">X</a></li>, T different from X
TitledAnchor(item) ==
    /\ Len(item) = 1
    /\ item[1].name = "a"
    /\ clean_text(item[1].text) # NoText
    /\ StrLen(clean_text(item[1].text)) <= ItemLimit
    /\ clean_text(item[1].title) # NoText
    /\ clean_text(item[1].title) # clean_text(item[1].text)

\* <li><a>Y</a>: text</li>
AnchorColonText(item) ==
    /\ Len(item) = 2
    /\ item[1].name = "a" /\ item[1].title = NoText
    /\ clean_text(item[1].text) # NoText
    /\ ~Contains(item[1].text, ":")
    /\ item[2].name = "#text"
    /\ item[2].text # NoText /\ item[2].text[1][1] = ":"
    /\ clean_text(After(item[2].text, ":")) # NoText
    /\ StrLen(clean_text(Concat(item[1].text, item[2].text))) <= ItemLimit

BareAnchor(item) ==
    /\ Len(item) = 1
    /\ item[1].name = "a" /\ item[1].title = NoText
    /\ clean_text(item[1].text) # NoText

\* C17: every module emitted by the list pass has a non-empty name and a
\* non-empty description or at least one submodule; an item with a name but
\* neither description nor submodules is never emitted.
EmittedHasNameAndContent ==
    /\ \A k \in DOMAIN list_modules :
          /\ list_modules[k].module # NoText
          /\ \/ list_modules[k].Description # NoText
             \/ list_modules[k].Submodules # << >>
    /\ \A i \in Processed :
          BareAnchor(list_element.items[i])
          => \A k \in DOMAIN list_from : list_from[k] # i

\* C23: every module record produced by extraction has a non-empty name,
\* of at most 100 characters when it comes from the heading pass and of at
\* most 200 characters when it comes from the list pass, the names taken
\* from an anchor's title attribute included.
ModuleNamesWithinLimits ==
    /\ \A i \in DOMAIN heading_modules :
          /\ heap[heading_modules[i]].module # NoText
          /\ StrLen(heap[heading_modules[i]].module) <= HeadingLimit
    /\ \A k \in DOMAIN list_modules :
          /\ list_modules[k].module # NoText
          /\ StrLen(list_modules[k].module) <= ItemLimit

BareAnchorDropped ==
    /\ list_pc = "done"
    /\ \E i \in Processed :
          /\ BareAnchor(list_element.items[i])
          /\ \A k \in DOMAIN list_from : list_from[k] # i
    /\ \E k \in DOMAIN list_modules :
          /\ list_modules[k].Description = NoText
          /\ list_modules[k].Submodules # << >>

(***************************************************************************)
(* Parser.find_submodules_aggressively.  The content node is given by what *)
(* its find_all calls return: tables, definition lists, class-hinted       *)
(* sections, lists, code blocks and paragraphs.  One step per pass and     *)
(* module.  keyword tells whether the text of a region holds one of the    *)
(* submodule keywords (or, for a section, matches submodule_regex).        *)
(***************************************************************************)
MaxRuns == 2
MaxModules == 2

ManyLimit == 15
NameLimit == 100

\* a fixed piece of text, as one run
Lit(s) == << << s, 1 >> >>

\* str.lower() on the letters of the texts below
LowerOf ==
    [c \in {"W", "V", "G", "L", "H", "P", "R", "A", "B", "Q", "U", "E"} |->
        CASE c = "W" -> "w" [] c = "V" -> "v" [] c = "G" -> "g"
          [] c = "L" -> "l" [] c = "H" -> "h" [] c = "P" -> "p"
          [] c = "R" -> "r" [] c = "A" -> "a" [] c = "B" -> "b"
          [] c = "Q" -> "q" [] c = "U" -> "u" [] c = "E" -> "e"]

Lower(s) ==
    Runs([i \in DOMAIN s |->
            << IF s[i][1] \in DOMAIN LowerOf THEN LowerOf[s[i][1]]
               ELSE s[i][1],
               s[i][2] >>])

\* module_name.lower() in region_text, for region_text = get_text().lower()
Mentions(text, module_name) == Occurs(Lower(text), Lower(module_name))

\* s.split(' - ', 1)[0], for ' - ' in s
BeforeDash(s) ==
    Runs(SubSeq(s, 1, MinOf(DashRuns(s)) - 2)
         \o << << " ", s[MinOf(DashRuns(s)) - 1][2] - 1 >> >>)

\* what is left of s after the first occurrence of sub
AfterOccurrence(s, sub, p) ==
    Runs(<< << s[p + Len(sub) - 1][1],
               IF Len(sub) = 1 THEN s[p][2] - sub[1][2]
               ELSE s[p + Len(sub) - 1][2] - sub[Len(sub)][2] >> >>
         \o SubSeq(s, p + Len(sub), Len(s)))

\* what stands in s before the occurrence of sub that starts in run p
BeforeOccurrence(s, sub, p) ==
    Runs(SubSeq(s, 1, p - 1)
         \o ( IF Len(sub) = 1 THEN << >>
              ELSE << << s[p][1], s[p][2] - sub[1][2] >> >> ))

\* s.replace(sub, '')
RECURSIVE ReplaceAll(_, _)
ReplaceAll(s, sub) ==
    IF sub = << >> \/ ~Occurs(s, sub) THEN s
    ELSE Concat(BeforeOccurrence(s, sub,
                    MinOf({ p \in DOMAIN s : OccursAt(s, sub, p) })),
                ReplaceAll(AfterOccurrence(s, sub,
                    MinOf({ p \in DOMAIN s : OccursAt(s, sub, p) })), sub))

\* the text of a sequence of elements
RECURSIVE TextOf(_)
TextOf(elements) ==
    IF elements = << >> THEN NoText
    ELSE Concat(elements[1].text, TextOf(Tail(elements)))

\* the text of a sequence of texts
RECURSIVE Joined(_)
Joined(texts) ==
    IF texts = << >> THEN NoText ELSE Concat(texts[1], Joined(Tail(texts)))

Element(name, text) == [name |-> name, text |-> text]

\* a link of a help section: its text, its title and the text of its parent
\* when the parent is a paragraph
HelpLink(text, title, in_p, p_text) ==
    [text |-> text, title |-> title, in_p |-> in_p, p_text |-> p_text]

Tables ==
    { << >>,
      << [keyword |-> TRUE,
          rows |-> << << Str("n", 4), Str("d", 4) >>,
                      << Str("G", 6), Str("n", 3) >>,
                      << Str("W", 7), Str("o", 2) >>,
                      << Str("L", NameLimit), Str("o", 2) >>,
                      << Str("c", 2) >> >>] >>,
      << [keyword |-> FALSE,
          rows |-> << << Str("n", 4), Str("d", 4) >>,
                      << Str("H", 3), Str("h", 2) >> >>] >> }

DefinitionLists ==
    { << >>,
      << [keyword |-> TRUE,
          elements |-> << Element("dt", Str("P", 4)),
                          Element("dd", Str("p", 3)),
                          Element("dt", Str("R", 3)) >>] >> }

ApiSection ==
    [class |-> "api", keyword |-> TRUE,
     elements |-> << Element("h3", Str("A", 3)), Element("p", Str("a", 4)) >>,
     links |-> << >>]

HelpSection ==
    [class |-> "help", keyword |-> FALSE, elements |-> << >>,
     links |-> << HelpLink(Str("Q", 3), Str("t", 2), FALSE, NoText),
                  HelpLink(Str("U", 3), NoText, TRUE,
                           Str("U", 3) \o Str(" ", 1) \o Str("u", 2)),
                  HelpLink(Str("V", 5), NoText, FALSE, NoText),
                  HelpLink(Str("B", 2), NoText, FALSE, NoText) >>]

Sections ==
    { << >>, << ApiSection >>, << HelpSection >>,
      << ApiSection, HelpSection >> }

PageLists ==
    { << >>,
      << [keyword |-> TRUE,
          items |-> << << Text(Str("B", 2) \o Str(":", 1) \o Str(" ", 1)
                               \o Str("b", 3)) >>,
                       << Link(Str("G", 6), NoText),
                          Text(Str(" ", 1) \o Str("g", 2)) >>,
                       << Text(Str("c", 3)) >> >>] >> }

CodeBlocks ==
    { << >>,
      << << [pattern |-> "function", name |-> Str("f", NameLimit + 1)],
            [pattern |-> "class", name |-> Str("W", 7)],
            [pattern |-> "method", name |-> Str("G", 6)] >> >> }

Paragraphs ==
    { << >>,
      << << Element("#text", Str("W", 7) \o Str(" ", 1)),
            Element("strong", Str("E", 3)) >> >> }

MinerContents ==
    { [tables |-> t, dl_lists |-> d, sections |-> x, lists |-> l,
       code_blocks |-> c, paragraphs |-> q] :
        t \in Tables, d \in DefinitionLists, x \in Sections,
        l \in PageLists, c \in CodeBlocks, q \in Paragraphs }

\* the modules the heading pass and the list pass hand over
MinerModules ==
    { Module(Str("W", 7), Str("d", 4), << >>),
      Module(Str("V", 5), NoText, << << Str("G", 6), Str("s", 3) >> >>),
      Module(Str("W", 7), Str("d", 4),
             [i \in 1..(ManyLimit + 1) |->
                 IF i = 1 THEN << Str("G", 6), Str("s", 3) >>
                 ELSE << Str("k", i), Str("s", i) >>]) }

\* if submodule_name and len(submodule_name) < 100 and
\* submodule_name != module_name: module["Submodules"][submodule_name] = ...
Put(submodules, module_name, submodule_name, submodule_desc) ==
    IF /\ submodule_name # NoText
       /\ StrLen(submodule_name) < NameLimit
       /\ submodule_name # module_name
    THEN SetItem(submodules, submodule_name, submodule_desc)
    ELSE submodules

\* if submodule_name and submodule_name != module_name: ... (line 569)
PutCode(submodules, module_name, submodule_name, submodule_desc) ==
    IF submodule_name # NoText /\ submodule_name # module_name
    THEN SetItem(submodules, submodule_name, submodule_desc)
    ELSE submodules

\* the region is related to the module (lines 484, 500, 515, 530)
Related(region, region_text, module_name) ==
    Mentions(region_text, module_name) \/ region.keyword

\* pass 1, the rows of one table after the header row
RECURSIVE TableRows(_, _, _)
TableRows(rows, module_name, submodules) ==
    IF rows = << >> THEN submodules
    ELSE TableRows(Tail(rows), module_name,
           IF Len(rows[1]) >= 2
           THEN Put(submodules, module_name,
                    clean_text(rows[1][1]), clean_text(rows[1][2]))
           ELSE submodules)

TableText(table) == Joined([i \in DOMAIN table.rows |-> Joined(table.rows[i])])

RECURSIVE PassTables(_, _, _)
PassTables(tables, module_name, submodules) ==
    IF tables = << >> THEN submodules
    ELSE PassTables(Tail(tables), module_name,
           IF Related(tables[1], TableText(tables[1]), module_name)
           THEN TableRows(Tail(tables[1].rows), module_name, submodules)
           ELSE submodules)

\* dt.find_next('dd') and heading.find_next('p'): the text of the first
\* element of that name after position i, "" when there is none
NextText(elements, i, name) ==
    IF \E j \in (i + 1)..Len(elements) : elements[j].name = name
    THEN elements[MinOf({ j \in (i + 1)..Len(elements) :
                            elements[j].name = name })].text
    ELSE NoText

\* passes 2 and 3: the elements named key of one region, each with the
\* text of the next element named value
RECURSIVE Pairs(_, _, _, _, _, _)
Pairs(elements, i, key, value, module_name, submodules) ==
    IF i > Len(elements) THEN submodules
    ELSE Pairs(elements, i + 1, key, value, module_name,
           IF elements[i].name = key
           THEN Put(submodules, module_name, clean_text(elements[i].text),
                    clean_text(NextText(elements, i, value)))
           ELSE submodules)

RECURSIVE PassDefinitionLists(_, _, _)
PassDefinitionLists(dl_lists, module_name, submodules) ==
    IF dl_lists = << >> THEN submodules
    ELSE PassDefinitionLists(Tail(dl_lists), module_name,
           IF Related(dl_lists[1], TextOf(dl_lists[1].elements), module_name)
           THEN Pairs(dl_lists[1].elements, 1, "dt", "dd", module_name,
                      submodules)
           ELSE submodules)

RECURSIVE PassSections(_, _, _)
PassSections(sections, module_name, submodules) ==
    IF sections = << >> THEN submodules
    ELSE PassSections(Tail(sections), module_name,
           IF /\ sections[1].class = "api"
              /\ Related(sections[1], TextOf(sections[1].elements),
                         module_name)
           THEN Pairs(sections[1].elements, 1, "h3", "p", module_name,
                      submodules)
           ELSE submodules)

FirstNamed(item, names) == SelectSeq(item, LAMBDA c : c.name \in names)

\* submodule_name of lines 536-555
MinedName(item) ==
    IF Contains(clean_text(get_text(item)), ":")
    THEN clean_text(Before(clean_text(get_text(item)), ":"))
    ELSE IF DashRuns(clean_text(get_text(item))) # {}
    THEN clean_text(BeforeDash(clean_text(get_text(item))))
    ELSE IF FirstNamed(item, {"strong", "b"}) # << >>
    THEN clean_text(FirstNamed(item, {"strong", "b"})[1].text)
    ELSE IF FirstNamed(item, {"a"}) # << >>
    THEN clean_text(FirstNamed(item, {"a"})[1].text)
    ELSE clean_text(get_text(item))

\* submodule_desc of lines 536-555
MinedDesc(item, module_name) ==
    IF Contains(clean_text(get_text(item)), ":")
    THEN clean_text(After(clean_text(get_text(item)), ":"))
    ELSE IF DashRuns(clean_text(get_text(item))) # {}
    THEN clean_text(AfterDash(clean_text(get_text(item))))
    ELSE IF FirstNamed(item, {"strong", "b", "a"}) # << >>
    THEN clean_text(ReplaceAll(clean_text(get_text(item)), MinedName(item)))
    ELSE Concat(Lit("Feature or setting in "), module_name)

RECURSIVE ListItems(_, _, _)
ListItems(list_items, module_name, submodules) ==
    IF list_items = << >> THEN submodules
    ELSE ListItems(Tail(list_items), module_name,
           Put(submodules, module_name, MinedName(list_items[1]),
               MinedDesc(list_items[1], module_name)))

ListText(list) == Joined([i \in DOMAIN list.items |-> get_text(list.items[i])])

RECURSIVE PassLists(_, _, _)
PassLists(lists, module_name, submodules) ==
    IF lists = << >> THEN submodules
    ELSE PassLists(Tail(lists), module_name,
           IF Related(lists[1], ListText(lists[1]), module_name)
           THEN ListItems(lists[1].items, module_name, submodules)
           ELSE submodules)

\* the patterns of line 565, in order, and f"{pattern.capitalize()} in "
Patterns ==
    << "function", "method", "class", "property", "attribute", "parameter",
       "option", "setting", "feature" >>

Capitalized ==
    [function |-> "Function in ", method |-> "Method in ",
     class |-> "Class in ", property |-> "Property in ",
     attribute |-> "Attribute in ", parameter |-> "Parameter in ",
     option |-> "Option in ", setting |-> "Setting in ",
     feature |-> "Feature in "]

\* the matches of one pattern in one code block
RECURSIVE Matches(_, _, _, _)
Matches(code_text, pattern, module_name, submodules) ==
    IF code_text = << >> THEN submodules
    ELSE Matches(Tail(code_text), pattern, module_name,
           IF code_text[1].pattern = pattern
           THEN PutCode(submodules, module_name, code_text[1].name,
                        Concat(Lit(Capitalized[pattern]), module_name))
           ELSE submodules)

RECURSIVE CodeBlock(_, _, _, _)
CodeBlock(code_text, k, module_name, submodules) ==
    IF k > Len(Patterns) THEN submodules
    ELSE CodeBlock(code_text, k + 1, module_name,
                   Matches(code_text, Patterns[k], module_name, submodules))

RECURSIVE PassCode(_, _, _)
PassCode(code_blocks, module_name, submodules) ==
    IF code_blocks = << >> THEN submodules
    ELSE PassCode(Tail(code_blocks), module_name,
                  CodeBlock(code_blocks[1], 1, module_name, submodules))

\* submodule_desc of lines 581-586
HelpDesc(link, module_name) ==
    IF link.title # NoText THEN clean_text(link.title)
    ELSE IF link.in_p
    THEN clean_text(ReplaceAll(link.p_text, clean_text(link.text)))
    ELSE Concat(Lit("Help topic in "), module_name)

RECURSIVE HelpLinks(_, _, _)
HelpLinks(links, module_name, submodules) ==
    IF links = << >> THEN submodules
    ELSE HelpLinks(Tail(links), module_name,
           Put(submodules, module_name, clean_text(links[1].text),
               HelpDesc(links[1], module_name)))

RECURSIVE PassHelp(_, _, _)
PassHelp(sections, module_name, submodules) ==
    IF sections = << >> THEN submodules
    ELSE PassHelp(Tail(sections), module_name,
           IF sections[1].class = "help"
           THEN HelpLinks(sections[1].links, module_name, submodules)
           ELSE submodules)

\* the strong, b, a and em elements of one paragraph
RECURSIVE Mentioned(_, _, _)
Mentioned(elements, module_name, submodules) ==
    IF elements = << >> THEN submodules
    ELSE Mentioned(Tail(elements), module_name,
           IF elements[1].name \in {"strong", "b", "a", "em"}
           THEN Put(submodules, module_name, clean_text(elements[1].text),
                    Concat(Concat(Lit("Feature mentioned in "), module_name),
                           Lit(" documentation")))
           ELSE submodules)

RECURSIVE PassParagraphs(_, _, _)
PassParagraphs(paragraphs, module_name, submodules) ==
    IF paragraphs = << >> THEN submodules
    ELSE PassParagraphs(Tail(paragraphs), module_name,
           IF Mentions(TextOf(paragraphs[1]), module_name)
           THEN Mentioned(paragraphs[1], module_name, submodules)
           ELSE submodules)

MinerInit ==
    /\ miner_content \in MinerContents
    /\ aggressive_submodule_detection \in BOOLEAN
    /\ miner_modules \in SeqsUpTo(MinerModules, MaxModules)
    /\ miner_in = miner_modules
    /\ miner_m = 0
    /\ miner_pass = 0
    /\ miner_runs = 1
    /\ miner_pc = "call"

\* if not modules or not self.aggressive_submodule_detection: return modules
MinerOff ==
    /\ miner_pc = "call"
    /\ miner_modules = << >> \/ ~aggressive_submodule_detection
    /\ miner_pc' = "done"
    /\ UNCHANGED << crawl_vars, batch_vars, format_vars, miner_others,
                    miner_content, aggressive_submodule_detection,
                    miner_modules, miner_in, miner_m, miner_pass,
                    miner_runs >>

\* for module in modules
MinerEnter ==
    /\ miner_pc = "call"
    /\ miner_modules # << >> /\ aggressive_submodule_detection
    /\ miner_pc' = "loop"
    /\ miner_m' = 1
    /\ miner_pass' = 0
    /\ UNCHANGED << crawl_vars, batch_vars, format_vars, miner_others,
                    miner_content, aggressive_submodule_detection,
                    miner_modules, miner_in, miner_runs >>

ManySubmodules_more(module) == Len(module.Submodules) > ManyLimit + 1

\* len(module.get("Submodules", {})) > 15
ManySubmodules(module) == Len(module.Submodules) > ManyLimit

AtModule == miner_pc = "loop" /\ miner_m <= Len(miner_modules)

\* if len(module.get("Submodules", {})) > 15: continue
MinerSkip ==
    /\ AtModule
    /\ miner_pass = 0
    /\ ManySubmodules(miner_modules[miner_m])
    /\ miner_m' = miner_m + 1
    /\ UNCHANGED << crawl_vars, batch_vars, format_vars, miner_others,
                    miner_content, aggressive_submodule_detection,
                    miner_modules, miner_in, miner_pass, miner_runs,
                    miner_pc >>

\* pass number pass is made over the module: its Submodules become subs
MinerPass(pass, subs) ==
    /\ AtModule
    /\ miner_pass = pass - 1
    /\ pass = 1 => ~ManySubmodules(miner_modules[miner_m])
    /\ miner_modules' = [miner_modules EXCEPT ![miner_m].Submodules = subs]
    /\ miner_pass' = IF pass = 7 THEN 0 ELSE pass
    /\ miner_m' = IF pass = 7 THEN miner_m + 1 ELSE miner_m
    /\ UNCHANGED << crawl_vars, batch_vars, format_vars, miner_others,
                    miner_content, aggressive_submodule_detection,
                    miner_in, miner_runs, miner_pc >>

MinerTables ==
    /\ AtModule
    /\ MinerPass(1, PassTables(miner_content.tables,
                               miner_modules[miner_m].module,
                               miner_modules[miner_m].Submodules))

MinerDefinitionLists ==
    /\ AtModule
    /\ MinerPass(2, PassDefinitionLists(miner_content.dl_lists,
                                        miner_modules[miner_m].module,
                                        miner_modules[miner_m].Submodules))

MinerSections ==
    /\ AtModule
    /\ MinerPass(3, PassSections(miner_content.sections,
                                 miner_modules[miner_m].module,
                                 miner_modules[miner_m].Submodules))

MinerLists ==
    /\ AtModule
    /\ MinerPass(4, PassLists(miner_content.lists,
                              miner_modules[miner_m].module,
                              miner_modules[miner_m].Submodules))

MinerCode ==
    /\ AtModule
    /\ MinerPass(5, PassCode(miner_content.code_blocks,
                             miner_modules[miner_m].module,
                             miner_modules[miner_m].Submodules))

MinerHelp ==
    /\ AtModule
    /\ MinerPass(6, PassHelp(miner_content.sections,
                             miner_modules[miner_m].module,
                             miner_modules[miner_m].Submodules))

\* pass 7 made whatever the module holds
MinerParagraphs_always ==
    /\ AtModule
    /\ MinerPass(7, PassParagraphs(miner_content.paragraphs,
                                   miner_modules[miner_m].module,
                                   miner_modules[miner_m].Submodules))

\* if not module["Submodules"]: the paragraphs that mention the module
MinerParagraphs ==
    /\ AtModule
    /\ miner_modules[miner_m].Submodules = << >>
    /\ MinerPass(7, PassParagraphs(miner_content.paragraphs,
                                   miner_modules[miner_m].module,
                                   miner_modules[miner_m].Submodules))

\* the module has submodules after pass 6: pass 7 is not made
MinerNoParagraphs ==
    /\ AtModule
    /\ miner_modules[miner_m].Submodules # << >>
    /\ MinerPass(7, miner_modules[miner_m].Submodules)

\* return modules
MinerReturn ==
    /\ miner_pc = "loop"
    /\ miner_m > Len(miner_modules)
    /\ miner_pc' = "done"
    /\ UNCHANGED << crawl_vars, batch_vars, format_vars, miner_others,
                    miner_content, aggressive_submodule_detection,
                    miner_modules, miner_in, miner_m, miner_pass,
                    miner_runs >>

\* the miner is called again on the modules it returned
MinerAgain ==
    /\ miner_pc = "done"
    /\ miner_runs < MaxRuns
    /\ miner_runs' = miner_runs + 1
    /\ miner_pc' = "call"
    /\ UNCHANGED << crawl_vars, batch_vars, format_vars, miner_others,
                    miner_content, aggressive_submodule_detection,
                    miner_modules, miner_in, miner_m, miner_pass >>

MinerNext ==
    \/ MinerOff
    \/ MinerEnter
    \/ MinerSkip
    \/ MinerTables
    \/ MinerDefinitionLists
    \/ MinerSections
    \/ MinerLists
    \/ MinerCode
    \/ MinerHelp
    \/ MinerParagraphs
    \/ MinerNoParagraphs
    \/ MinerReturn
    \/ MinerAgain

MinerStartState ==
    /\ CrawlIdle /\ BatchIdle /\ FormatIdle
    /\ UrlIdle /\ HeadingIdle /\ ListIdle /\ MinerInit
    /\ FetchIdle /\ ParseIdle

MinerSpec == MinerStartState /\ [][MinerNext]_vars

(***************************************************************************)
(* Properties of the aggressive miner.                                     *)
(***************************************************************************)
\* the description of key in a Submodules mapping that holds it
ValueOf(submodules, key) ==
    submodules[CHOOSE k \in DOMAIN submodules : submodules[k][1] = key][2]

KeysOf(submodules) == { submodules[k][1] : k \in DOMAIN submodules }

\* C18: the Submodules mapping of a module that holds more than 15
\* submodules on entry is left unchanged, keys and descriptions, whatever the
\* page content and however many times the miner is run.
ManySubmodulesUntouched ==
    \A m \in DOMAIN miner_in :
        Len(miner_in[m].Submodules) > ManyLimit
        => miner_modules[m].Submodules = miner_in[m].Submodules

ManySubmodulesRerun ==
    /\ miner_pc = "done"
    /\ miner_runs = 2
    /\ miner_content.tables # << >> /\ miner_content.tables[1].keyword
    /\ miner_content.code_blocks # << >>
    /\ Len(miner_in) = 2
    /\ Len(miner_in[1].Submodules) = ManyLimit + 1
    /\ miner_modules[1].Submodules = miner_in[1].Submodules
    /\ miner_modules[2].Submodules # miner_in[2].Submodules

\* C19: the miner only adds: every submodule key a module held before the
\* call is still present afterwards with the description it had.
MinerOnlyAdds ==
    \A m \in DOMAIN miner_in :
        \A key \in KeysOf(miner_in[m].Submodules) :
            /\ key \in KeysOf(miner_modules[m].Submodules)
            /\ ValueOf(miner_modules[m].Submodules, key)
                   = ValueOf(miner_in[m].Submodules, key)

\* C20: no submodule key added by a pass of the miner is longer than 100
\* characters or equal to the module's own name.
MinedKeysWithinLimit ==
    \A m \in DOMAIN miner_in :
        \A key \in KeysOf(miner_modules[m].Submodules)
                       \ KeysOf(miner_in[m].Submodules) :
            /\ StrLen(key) <= NameLimit
            /\ key # miner_in[m].module

\* the step that ends the passes over one module: pass 7 or its omission
ParagraphStep ==
    /\ miner_pc = "loop"
    /\ miner_pass = 6
    /\ miner_m' = miner_m + 1

\* C30: the passes over a module are made in the order 1 to 7, and pass 7
\* is made only if the module's Submodules is empty once passes 1 to 6
\* have run: the step after pass 6 applies the paragraph pass to an empty
\* mapping and leaves a mapping that holds any submodule as it is, without
\* a 'Feature mentioned in ...' entry.
ParagraphPassOnlyWhenEmpty ==
    [][ /\ ( miner_pc = "loop" /\ miner_pass' # miner_pass ) =>
              miner_pass' = (miner_pass + 1) % 7
        /\ ParagraphStep =>
              miner_modules' =
                [miner_modules EXCEPT ![miner_m].Submodules =
                    IF @ = << >>
                    THEN PassParagraphs(miner_content.paragraphs,
                                        miner_modules[miner_m].module, @)
                    ELSE @]
      ]_vars

\* a paragraph mentions the first module and emphasises a name, the module
\* had no submodule on entry and got some from passes 1 to 6: its passes
\* are over and the emphasised name is not among its submodules
ParagraphPassOmitted ==
    /\ miner_pc = "loop"
    /\ miner_runs = 1
    /\ miner_m = 2
    /\ miner_pass = 0
    /\ miner_content.paragraphs # << >>
    /\ miner_in[1] = Module(Str("W", 7), Str("d", 4), << >>)
    /\ miner_modules[1].Submodules # << >>
    /\ Str("E", 3) \notin KeysOf(miner_modules[1].Submodules)

(***************************************************************************)
(* Crawler.fetch_url: the streaming read of the response body.  A text is  *)
(* the sequence of its runs; one step per chunk of iter_content.           *)
(***************************************************************************)
MaxBodyLen == 320000

ContentLimit == 300000
ChunkSize == 8192
SmallLimit == 500

\* s[n:]
RECURSIVE StrDrop(_, _)
StrDrop(s, n) ==
    IF s = << >> \/ n <= 0 THEN s
    ELSE IF s[1][2] > n THEN << << s[1][1], s[1][2] - n >> >> \o Tail(s)
    ELSE StrDrop(Tail(s), n - s[1][2])

\* the lengths of the bodies served
BodyLengths ==
    { 0, SmallLimit - 1, ChunkSize, ContentLimit, ContentLimit + 1,
      37 * ChunkSize, MaxBodyLen }

\* the response of session.get: raises says that the request or
\* raise_for_status raises a RequestException, encoding is
\* response.encoding and body the decoded body
Responses ==
    { [raises |-> r, encoding |-> e, body |-> Str("b", n)] :
        r \in BOOLEAN, e \in {"utf-8", None}, n \in BodyLengths }

\* the sites fetch_url tells apart
Sites == {"docs.example.com", "www.facebook.com", "help.instagram.com"}

\* the sizes of the chunks iter_content yields: chunk_size bytes, or fewer
\* when the connection delivers fewer
ChunkSizes == {ChunkSize, ChunkSize \div 2}

\* what the alternative request of lines 128-130 gives: an exception, or
\* the text of the known help article
AltOutcomes == {None, Str("a", ContentLimit + SmallLimit)}

FetchInit ==
    /\ fetch_site \in Sites
    /\ response \in Responses
    /\ unread = << >>
    /\ fetch_content = << >>
    /\ fetch_returned = None
    /\ fetch_pc = "get"

\* session.get and raise_for_status; on RequestException return None
FetchGet ==
    /\ fetch_pc = "get"
    /\ IF response.raises
       THEN fetch_pc' = "returned" /\ UNCHANGED unread
       ELSE fetch_pc' = "read" /\ unread' = response.body
    /\ UNCHANGED << crawl_vars, batch_vars, format_vars, fetch_others,
                    fetch_site, response, fetch_content, fetch_returned >>

\* len(content) > 300000
OverLimit(text) == StrLen(text) > ContentLimit

\* one iteration of the loop of lines 101-106: the chunk is added, then the
\* length is tested
FetchChunk ==
    /\ fetch_pc = "read"
    /\ unread # << >>
    /\ response.encoding # None
    /\ \E size \in ChunkSizes :
          /\ fetch_content' = Concat(fetch_content, StrTake(unread, size))
          /\ unread' = StrDrop(unread, size)
    /\ fetch_pc' = IF OverLimit(fetch_content') THEN "after" ELSE "read"
    /\ UNCHANGED << crawl_vars, batch_vars, format_vars, fetch_others,
                    fetch_site, response, fetch_returned >>

\* response.encoding is None: iter_content yields bytes, and content +=
\* chunk raises a TypeError, which fetch_url does not catch
FetchBytes ==
    /\ fetch_pc = "read"
    /\ unread # << >>
    /\ response.encoding = None
    /\ fetch_pc' = "raised"
    /\ UNCHANGED << crawl_vars, batch_vars, format_vars, fetch_others,
                    fetch_site, response, unread, fetch_content,
                    fetch_returned >>

\* the body is exhausted
FetchExhausted ==
    /\ fetch_pc = "read"
    /\ unread = << >>
    /\ fetch_pc' = "after"
    /\ UNCHANGED << crawl_vars, batch_vars, format_vars, fetch_others,
                    fetch_site, response, unread, fetch_content,
                    fetch_returned >>

\* len(content) < 500 on a help page of instagram.com
TriesAlternative ==
    /\ StrLen(fetch_content) < SmallLimit
    /\ fetch_site = "help.instagram.com"

\* return content
FetchReturn ==
    /\ fetch_pc = "after"
    /\ ~TriesAlternative
    /\ fetch_returned' = fetch_content
    /\ fetch_pc' = "returned"
    /\ UNCHANGED << crawl_vars, batch_vars, format_vars, fetch_others,
                    fetch_site, response, unread, fetch_content >>

\* the alternative request of lines 113-132, then return content
FetchAlternative ==
    /\ fetch_pc = "after"
    /\ TriesAlternative
    /\ \E text \in AltOutcomes :
          fetch_content' = IF text = None THEN fetch_content ELSE text
    /\ fetch_returned' = fetch_content'
    /\ fetch_pc' = "returned"
    /\ UNCHANGED << crawl_vars, batch_vars, format_vars, fetch_others,
                    fetch_site, response, unread >>

FetchNext ==
    \/ FetchGet
    \/ FetchChunk
    \/ FetchBytes
    \/ FetchExhausted
    \/ FetchReturn
    \/ FetchAlternative

FetchStartState ==
    /\ CrawlIdle /\ BatchIdle /\ FormatIdle
    /\ UrlIdle /\ HeadingIdle /\ ListIdle /\ MinerIdle
    /\ FetchInit /\ ParseIdle

FetchSpec == FetchStartState /\ [][FetchNext]_vars

(***************************************************************************)
(* Properties of fetch_url.                                                *)
(***************************************************************************)
\* C22: every html body fetch_url returns, which is the body crawl_parallel
\* stores, holds at most 300,000 characters.
ReturnedBodyWithinLimit ==
    ( fetch_pc = "returned" /\ fetch_returned # None )
    => StrLen(fetch_returned) <= ContentLimit

(***************************************************************************)
(* Parser.parse_single_html, called for each page of a batch.  What a pass *)
(* does on a page is given with the page: the pass raises, or it returns   *)
(* a list of modules (for the miner: the submodules it finds).             *)
(***************************************************************************)
MaxParsePages == 2

PassOutcome(raises, returns) == [raises |-> raises, returns |-> returns]

HeadingOutcomes ==
    { PassOutcome(TRUE, << >>),
      PassOutcome(FALSE, << >>),
      PassOutcome(FALSE, << Module("Intro", "about", << >>) >>) }

ListOutcomes ==
    { PassOutcome(TRUE, << >>),
      PassOutcome(FALSE, << >>),
      PassOutcome(FALSE, << Module("Api", "calls", << >>) >>) }

MinerOutcomes ==
    { PassOutcome(TRUE, << >>),
      PassOutcome(FALSE, << << "get", "Function in" >> >>) }

ParsedPages ==
    { [headings |-> h, lists |-> l, miner |-> m] :
        h \in HeadingOutcomes, l \in ListOutcomes, m \in MinerOutcomes }

ParseInit ==
    /\ parse_pages \in SeqsUpTo(ParsedPages, MaxParsePages)
    /\ parse_aggressive \in BOOLEAN
    /\ parse_i = 1
    /\ parse_pc = "headings"
    /\ modules_from_headings = << >>
    /\ modules_from_lists = << >>
    /\ parse_modules = << >>
    /\ parse_results = << >>

\* the call for page parse_i is at statement pc
AtStatement(pc) == parse_i <= Len(parse_pages) /\ parse_pc = pc

\* the outcome of the pass the call is about to make
PassAt ==
    CASE parse_pc = "headings" -> parse_pages[parse_i].headings
      [] parse_pc = "lists"    -> parse_pages[parse_i].lists
      [] parse_pc = "miner"    -> parse_pages[parse_i].miner
      [] OTHER                 -> PassOutcome(FALSE, << >>)

\* modules_from_headings = self.extract_modules_from_headings(content)
ParseHeadings ==
    /\ AtStatement("headings")
    /\ ~PassAt.raises
    /\ modules_from_headings' = PassAt.returns
    /\ parse_pc' = "lists"
    /\ UNCHANGED << crawl_vars, batch_vars, format_vars, parse_others,
                    parse_pages, parse_aggressive, parse_i,
                    modules_from_lists, parse_modules, parse_results >>

\* modules_from_lists = self.extract_modules_from_lists(content)
ParseLists ==
    /\ AtStatement("lists")
    /\ ~PassAt.raises
    /\ modules_from_lists' = PassAt.returns
    /\ parse_pc' = "combine"
    /\ UNCHANGED << crawl_vars, batch_vars, format_vars, parse_others,
                    parse_pages, parse_aggressive, parse_i,
                    modules_from_headings, parse_modules, parse_results >>

\* all_modules = modules_from_headings + modules_from_lists
ParseCombine ==
    /\ AtStatement("combine")
    /\ parse_modules' = modules_from_headings \o modules_from_lists
    /\ parse_pc' = IF parse_aggressive THEN "miner" ELSE "return"
    /\ UNCHANGED << crawl_vars, batch_vars, format_vars, parse_others,
                    parse_pages, parse_aggressive, parse_i,
                    modules_from_headings, modules_from_lists,
                    parse_results >>

\* the submodules found are stored in each module
RECURSIVE Mined(_, _)
Mined(submodules, found) ==
    IF found = << >> THEN submodules
    ELSE Mined(SetItem(submodules, found[1][1], found[1][2]), Tail(found))

\* all_modules = self.find_submodules_aggressively(content, all_modules)
ParseMiner ==
    /\ AtStatement("miner")
    /\ ~PassAt.raises
    /\ parse_modules' =
          [k \in DOMAIN parse_modules |->
              [parse_modules[k] EXCEPT !.Submodules =
                  Mined(@, PassAt.returns)]]
    /\ parse_pc' = "return"
    /\ UNCHANGED << crawl_vars, batch_vars, format_vars, parse_others,
                    parse_pages, parse_aggressive, parse_i,
                    modules_from_headings, modules_from_lists,
                    parse_results >>

\* the call ends with the list returned; the next page is parsed
ParseEnds(returned) ==
    /\ parse_results' = Append(parse_results, returned)
    /\ parse_i' = parse_i + 1
    /\ parse_pc' = "headings"
    /\ modules_from_headings' = << >>
    /\ modules_from_lists' = << >>
    /\ parse_modules' = << >>
    /\ UNCHANGED << crawl_vars, batch_vars, format_vars, parse_others,
                    parse_pages, parse_aggressive >>

\* return all_modules
ParseReturn ==
    /\ AtStatement("return")
    /\ ParseEnds(parse_modules)

\* except Exception as e: ... return []
ParseExcept ==
    /\ parse_i <= Len(parse_pages)
    /\ PassAt.raises
    /\ ParseEnds(<< >>)

ParseNext ==
    \/ ParseHeadings
    \/ ParseLists
    \/ ParseCombine
    \/ ParseMiner
    \/ ParseReturn
    \/ ParseExcept

ParseStartState ==
    /\ CrawlIdle /\ BatchIdle /\ FormatIdle
    /\ UrlIdle /\ HeadingIdle /\ ListIdle /\ MinerIdle
    /\ FetchIdle /\ ParseInit

ParseSpec == ParseStartState /\ [][ParseNext]_vars

(***************************************************************************)
(* Properties of parse_single_html.                                        *)
(***************************************************************************)
\* the passes made on a page before a pass raises, or all of them
HeadingsReturned(page) == ~page.headings.raises

ListsReturned(page) == HeadingsReturned(page) /\ ~page.lists.raises

\* C21: when a pass raises on a page, the modules the passes before it had
\* produced for that page are still in the list returned for the page, and
\* the lists returned for the other pages are as they are without the
\* error: for every page parsed, the modules of each pass that returned are
\* in the page's list.
PassErrorKeepsOtherResults ==
    \A j \in DOMAIN parse_results :
        /\ HeadingsReturned(parse_pages[j]) =>
              NamesOf(parse_pages[j].headings.returns)
                  \subseteq NamesOf(parse_results[j])
        /\ ListsReturned(parse_pages[j]) =>
              NamesOf(parse_pages[j].lists.returns)
                  \subseteq NamesOf(parse_results[j])

\* no pass that was made on a page raised
NoPassRaised(page) ==
    /\ ListsReturned(page)
    /\ parse_aggressive => ~page.miner.raises

\* the list returned for a page on which no pass raised holds the modules
\* of its passes, whatever happened on the other pages
OtherPagesPreserved ==
    \A j \in DOMAIN parse_results :
        NoPassRaised(parse_pages[j]) =>
            /\ Len(parse_results[j]) =
                  Len(parse_pages[j].headings.returns)
                  + Len(parse_pages[j].lists.returns)
            /\ NamesOf(parse_results[j]) =
                  NamesOf(parse_pages[j].headings.returns)
                  \cup NamesOf(parse_pages[j].lists.returns)

\* a page on which a pass raised is followed by a page parsed in full
ParsedAfterError ==
    /\ Len(parse_results) = 2
    /\ ~NoPassRaised(parse_pages[1])
    /\ NoPassRaised(parse_pages[2])
    /\ parse_results[1] = << >>
    /\ Len(parse_results[2]) = 2

====
